---- MODULE Spec2Model ----
(***************************************************************************)
(* Splitzee: group-expense entry (AddGroupExpenseModal.handleSubmit), the  *)
(* balance engine (Groups.calculateBalances), the settlement deep link     *)
(* (generateGooglePayUrl / openGooglePay), the personal-expense form, the  *)
(* group list load and sendNotification.                                   *)
(*                                                                         *)
(* Money is kept exact: a stored amount is an integer number of cents      *)
(* (decimal(10, 2) columns); a split held in the modal's React state is a  *)
(* number of 1/Scale cents, because parseFloat(amount) / members.length    *)
(* need not be a whole number of cents.                                    *)
(***************************************************************************)
EXTENDS Integers, Sequences, FiniteSets, TLC

VARIABLES
    \* ---- storage (the hosted database) ----
    group_expenses,       \* sequence of rows [id, group_id, paid_by, amount]
    expense_splits,       \* set of rows [group_expense_id, user_id, amount]
    \* ---- the signed-in client (Groups page) ----
    user,                 \* useAuth().user of the client
    balances,             \* Groups state: sequence of [user_id, user_name, balance]
    \* ---- AddGroupExpenseModal ----
    showAddExpenseModal,  \* Groups state: the modal is mounted
    amount,               \* <<>> for '' or <<c>> for the decimal string of c cents
    splitType,
    splits,               \* Record<string, number>: user id -> 1/Scale cents
    loading,
    error,
    pc,                   \* position of handleSubmit
    expense,              \* the row returned by the group_expenses insert
    inserts,              \* inserts issued by the current/last handleSubmit
    outcome,              \* how the last handleSubmit ended
    calls,                \* callbacks the last handleSubmit made
    \* ---- the settle button of the Groups page ----
    st,                   \* [clicked, balance, creditor, href]
    \* ---- AddExpense page, Groups.loadGroups ----
    ae,                   \* AddExpense: [user, pc, loading, success, error, rows, timer]
    lg,                   \* loadGroups: [pc, loading, ids, left, groups]
    \* ---- sendNotification ----
    sn,                   \* [pc, type, calls, requests, total, logged, log, result]
    \* ---- generateGooglePayUrl, called twice ----
    gp,                   \* [p, q, up, uq, called, href, nav, opened]
    \* ---- the modal's equal split, over member lists and amounts ----
    eq,                   \* [members, amount, splitType, splits, rows, stored]
    \* ---- Groups.loadGroupDetails, two calls in flight ----
    ld,                   \* [loads, groupMembers, groupExpenses, started,
                          \*  finished, overlap, selected]
    \* ---- storage: the group_members rows of the group ----
    group_members,        \* sequence of user ids
    \* ---- Groups.createGroup ----
    cg,                   \* [showCreateModal, newGroupName, newGroupType, pc, groups,
                          \*  members, group, calls, closed, loadGroups]
    \* ---- AppContent ----
    app,                  \* [loading, user, currentPage, authMode, isSidebarOpen]
    \* ---- Dashboard.loadDashboardData ----
    db,                   \* [now, expenses, pc, loading, todayStart, weekStart,
                          \*  monthStart, yearStart, summary]
    \* ---- Insights.loadInsights ----
    ins                   \* [day, current, previous, pc, loading, rows, analysis,
                          \*  insights]

vars == <<group_expenses, expense_splits, user, balances, st,
          showAddExpenseModal, amount, splitType, splits, loading, error, pc,
          expense, inserts, outcome, calls, ae, lg, sn, gp, eq, ld,
          group_members, cg, app, db, ins>>

storageVars == <<group_expenses, expense_splits>>
modalVars == <<showAddExpenseModal, amount, splitType, splits, loading, error,
               pc, expense, inserts, outcome, calls>>
groupsVars == <<user, balances>>
pageVars == <<group_members, cg, app, db, ins>>
extraVars == <<eq, ld, pageVars>>
otherVars == <<st, ae, lg, sn, gp, extraVars>>

----------------------------------------------------------------------------
\* Data of the model

\* Bounds: rows of group_expenses the model lets the clients insert; rows of
\* expenses the AddExpense page inserts; groups a user belongs to; calls of
\* sendNotification; length of the payee name given to generateGooglePayUrl.
MaxExpenses == 2
MaxRows == 2
MaxGroups == 2
MaxCalls == 3
MaxLen == 2
MaxCents == 3

\* 1/Scale cents is the unit of a split held in the modal's state: the
\* quotient parseFloat(amount) / members.length is exact in it for 1, 2 and 3
\* members.
Scale == 3 * 2

\* The one group of the model and its group_members rows, in the order the
\* select returns them.
GroupId == "g1"
GroupMembers == <<"A", "B">>

\* user_profiles.full_name (NULL for B) and groups.name, as character
\* sequences.
FullName(u) == IF u = "A" THEN <<"A", "s", "h", " ", "K">> ELSE <<>>
GroupName == <<"G", "o", "a", " ", "&", "C", "o">>

\* What the user types in the amount field (cents) and in a split field.
Amounts == {5000, 10000}
SplitInputs == {4999, 9999}

NoError == [kind |-> "", totalSplit |-> 0, expenseAmount |-> 0, message |-> ""]
NoExpense == [id |-> 0, group_id |-> "", paid_by |-> "", amount |-> 0]
NoCalls == [onSuccess |-> 0, onClose |-> 0]

----------------------------------------------------------------------------
\* Helpers

RECURSIVE SumOver(_, _)
\* Object.values(f).reduce((sum, val) => sum + val, 0)
SumOver(f, D) ==
    IF D = {} THEN 0
    ELSE LET k == CHOOSE x \in D : TRUE IN f[k] + SumOver(f, D \ {k})

Abs(x) == IF x < 0 THEN -x ELSE x

Range(s) == {s[i] : i \in DOMAIN s}

----------------------------------------------------------------------------
\* AddGroupExpenseModal: pure parts

\* useEffect([splitType, amount, members]): under 'equal' with a non-empty
\* amount every member gets parseFloat(amount) / members.length; otherwise
\* the splits stay as they are.
EqualSplitsWrong(amt, type, members, old) ==
    IF type = "equal" /\ amt # <<>>
    THEN [m \in Range(members) |-> amt[1] * Scale]
    ELSE old

EqualSplits(amt, type, members, old) ==
    IF type = "equal" /\ amt # <<>>
    THEN [m \in Range(members) |-> (amt[1] * Scale) \div Len(members)]
    ELSE old

\* handleSplitChange: { ...splits, [userId]: parseFloat(value) || 0 }
SplitChanged(old, userId, cents) ==
    [k \in DOMAIN old \cup {userId} |->
        IF k = userId THEN cents * Scale ELSE old[k]]

\* const totalSplit = Object.values(splits).reduce(...)
TotalSplit(sp) == SumOver(sp, DOMAIN sp)

\* Math.abs(totalSplit - expenseAmount) > 0.01 is evaluated in IEEE-754
\* binary64.  When the decimal difference is exactly 0.01 the result depends
\* on the rounding of the operands; these are the split sets of the model's
\* inputs for which the binary64 difference comes out above 0.01
\* (0 + 99.99 - 100 gives 0.010000000000005116), while 0 + 49.99 - 50 gives
\* 0.00999999999999801 and 0 + 49.99 + 50 - 100, in either order, gives
\* 0.009999999999990905.
Binary64Above ==
    { <<[A |-> 9999 * Scale], 10000>>, <<[B |-> 9999 * Scale], 10000>> }

\* The validation test of handleSubmit: TRUE when the submission is rejected.
SplitMismatch(sp, cents) ==
    LET d == Abs(TotalSplit(sp) - cents * Scale)
    IN  \/ d > Scale
        \/ d = Scale /\ <<sp, cents>> \in Binary64Above

\* expense_splits.amount is decimal(10, 2): the database rounds the number it
\* is sent to whole cents, half away from zero (amounts here are >= 0).
ToDecimal2(x) == (2 * x + Scale) \div (2 * Scale)

\* splitInserts = Object.entries(splits).map(...), as stored
SplitRows(id, sp) ==
    { [group_expense_id |-> id, user_id |-> u, amount |-> ToDecimal2(sp[u])] :
        u \in DOMAIN sp }

----------------------------------------------------------------------------
\* Groups.calculateBalances: pure parts

\* expense.expense_splits of the nested select
SplitsOf(e, allSplits) == {s \in allSplits : s.group_expense_id = e.id}

\* balanceMap.set(userId, (balanceMap.get(userId) || 0) - splitAmount)
DebitWrong(map, s) ==
    [k \in DOMAIN map \cup {s.user_id} |->
        IF k = s.user_id
        THEN (IF k \in DOMAIN map THEN map[k] ELSE 0) + s.amount
        ELSE map[k]]

Debit(map, s) ==
    [k \in DOMAIN map \cup {s.user_id} |->
        IF k = s.user_id
        THEN (IF k \in DOMAIN map THEN map[k] ELSE 0) - s.amount
        ELSE map[k]]

\* the inner forEach never entered
SubtractSplitsWrong(map, S) == map

RECURSIVE SubtractSplits(_, _)
\* expense.expense_splits.forEach(split => ...)
SubtractSplits(map, S) ==
    IF S = {} THEN map
    ELSE LET s == CHOOSE x \in S : TRUE
         IN  SubtractSplits(Debit(map, s), S \ {s})

\* balanceMap.set(paidBy, (balanceMap.get(paidBy) || 0) + totalAmount)
CreditPayerWrong(map, e) == map

CreditPayer(map, e) ==
    [k \in DOMAIN map \cup {e.paid_by} |->
        IF k = e.paid_by
        THEN (IF k \in DOMAIN map THEN map[k] ELSE 0) + e.amount
        ELSE map[k]]

\* the forEach stopping after the first expense
BalanceMapWrong(map, rows, allSplits) ==
    IF rows = <<>> THEN map
    ELSE SubtractSplits(CreditPayer(map, Head(rows)),
                        SplitsOf(Head(rows), allSplits))

RECURSIVE BalanceMap(_, _, _)
\* expenses.forEach(...) over the rows of the group, from index i on
BalanceMap(map, rows, allSplits) ==
    IF rows = <<>> THEN map
    ELSE BalanceMap(
            SubtractSplits(CreditPayer(map, Head(rows)),
                           SplitsOf(Head(rows), allSplits)),
            Tail(rows), allSplits)

\* .from('group_expenses').select(...).eq('group_id', selectedGroup)
ExpensesOfGroup(g, rows) == SelectSeq(rows, LAMBDA e : e.group_id = g)

\* members.map(m => ({ user_id, ..., balance: balanceMap.get(m.user_id) || 0 }))
\* m.user_profiles.full_name || 'Unknown'
UserName(u) ==
    IF FullName(u) # <<>> THEN FullName(u)
    ELSE <<"U", "n", "k", "n", "o", "w", "n">>

BalanceRow(map, u) ==
    [user_id |-> u, user_name |-> UserName(u),
     balance |-> IF u \in DOMAIN map THEN map[u] ELSE 0]

BalanceListWrong(map, members) ==
    LET active == SelectSeq(members, LAMBDA u : u \in DOMAIN map)
    IN  [i \in DOMAIN active |-> BalanceRow(map, active[i])]

\* the rows made from every user who was ever added to the group
BalanceListFormer(map, members) ==
    [i \in DOMAIN GroupMembers |-> BalanceRow(map, GroupMembers[i])]

BalanceList(map, members) ==
    [i \in DOMAIN members |-> BalanceRow(map, members[i])]

\* The list calculateBalances hands to setBalances for group g
CalculateBalances(g, rows, allSplits) ==
    BalanceList(BalanceMap(<<>>, ExpensesOfGroup(g, rows), allSplits),
                GroupMembers)

----------------------------------------------------------------------------
\* generateGooglePayUrl: strings are sequences of one-character strings

RECURSIVE Flatten(_)
Flatten(ss) == IF ss = <<>> THEN <<>> ELSE Head(ss) \o Flatten(Tail(ss))

Digit == <<"0", "1", "2", "3", "4", "5", "6", "7", "8", "9">>

RECURSIVE Decimal(_)
\* the decimal digits of a natural number
Decimal(n) ==
    IF n < 10 THEN <<Digit[n + 1]>>
    ELSE Decimal(n \div 10) \o <<Digit[(n % 10) + 1]>>

\* amount.toFixed(2), for an amount of c cents
ToFixed2(c) ==
    (IF c < 0 THEN <<"-">> ELSE <<>>)
        \o Decimal(Abs(c) \div 100)
        \o <<".", Digit[((Abs(c) % 100) \div 10) + 1], Digit[(Abs(c) % 10) + 1]>>

\* The characters the application/x-www-form-urlencoded serializer leaves as
\* they are: ASCII alphanumerics and * - . _
UrlSafe ==
    {"a", "b", "c", "d", "e", "f", "g", "h", "i", "j", "k", "l", "m", "n", "o",
     "p", "q", "r", "s", "t", "u", "v", "w", "x", "y", "z",
     "A", "B", "C", "D", "E", "F", "G", "H", "I", "J", "K", "L", "M", "N", "O",
     "P", "Q", "R", "S", "T", "U", "V", "W", "X", "Y", "Z",
     "0", "1", "2", "3", "4", "5", "6", "7", "8", "9", "*", "-", ".", "_"}

\* The other ASCII characters of the model, with the two hexadecimal digits
\* of their code.
HexOf ==
    [c \in {"&", "=", "+", "%", "@", "?", "#", "/", ":"} |->
        CASE c = "&" -> <<"2", "6">>
          [] c = "=" -> <<"3", "D">>
          [] c = "+" -> <<"2", "B">>
          [] c = "%" -> <<"2", "5">>
          [] c = "@" -> <<"4", "0">>
          [] c = "?" -> <<"3", "F">>
          [] c = "#" -> <<"2", "3">>
          [] c = "/" -> <<"2", "F">>
          [] c = ":" -> <<"3", "A">>]

\* URLSearchParams serialisation of one character
EncodeCharWrong(c) ==
    IF c \in UrlSafe THEN <<c>>
    ELSE IF c = " " \/ c = "+" THEN <<"+">>
    ELSE <<"%">> \o HexOf[c]

EncodeChar(c) ==
    IF c \in UrlSafe THEN <<c>>
    ELSE IF c = " " THEN <<"+">>
    ELSE <<"%">> \o HexOf[c]

\* URLSearchParams serialisation of a name or a value
UrlEncode(str) == Flatten([i \in DOMAIN str |-> EncodeChar(str[i])])

INR == <<"I", "N", "R">>

\* new URLSearchParams({ pa, pn, am, cu: 'INR', tn }).toString()
QueryString(upiId, cents, name, note) ==
    <<"p", "a", "=">> \o UrlEncode(upiId)
        \o <<"&", "p", "n", "=">> \o UrlEncode(name)
        \o <<"&", "a", "m", "=">> \o UrlEncode(ToFixed2(cents))
        \o <<"&", "c", "u", "=">> \o UrlEncode(INR)
        \o <<"&", "t", "n", "=">> \o UrlEncode(note)

UpiPay == <<"u", "p", "i", ":", "/", "/", "p", "a", "y", "?">>

\* generateGooglePayUrl({ upiId, amount, name, note })
GenerateGooglePayUrl(upiId, cents, name, note) ==
    UpiPay \o QueryString(upiId, cents, name, note)

----------------------------------------------------------------------------
\* Initial values of the components

\* The useState initial values of AddGroupExpenseModal, and no handleSubmit
\* under way.
ModalClosed ==
    /\ showAddExpenseModal = FALSE
    /\ amount = <<>>
    /\ splitType = "equal"
    /\ splits = <<>>
    /\ loading = FALSE
    /\ error = NoError
    /\ pc = "idle"
    /\ expense = NoExpense
    /\ inserts = 0
    /\ outcome = "none"
    /\ calls = NoCalls

StorageEmpty ==
    /\ group_expenses = <<>>
    /\ expense_splits = {}

NoParams == [upiId |-> <<>>, amount |-> 0, name |-> <<>>, note |-> <<>>]
StIdle == [clicked |-> FALSE, balance |-> 0, creditor |-> "", href |-> <<>>]
AeIdle == [user |-> "A", pc |-> "idle", loading |-> FALSE, success |-> FALSE,
           error |-> "", rows |-> 0, timer |-> FALSE]
LgIdle == [pc |-> "idle", loading |-> TRUE, ids |-> 0, left |-> 0, groups |-> 0]
SnIdle == [pc |-> "idle", type |-> "", calls |-> 0, requests |-> 0, total |-> 0,
           logged |-> 0, log |-> "", result |-> "none"]
GpIdle == [p |-> NoParams, q |-> NoParams, up |-> <<>>, uq |-> <<>>, called |-> 0,
           href |-> <<>>, nav |-> 0, opened |-> NoParams]
\* The modal as mounted for a member list: amount '', 'equal', no splits,
\* nothing submitted.
EqIdle == [members |-> GroupMembers, amount |-> <<>>, splitType |-> "equal",
           splits |-> <<>>, rows |-> {}, stored |-> FALSE]
\* A call of loadGroupDetails not yet made: the group it is for, the
\* balanceMap of its calculateBalances, what it has set, and whether all of
\* its selects returned data
IdleLoad == [pc |-> "idle", group |-> "", map |-> <<>>, members |-> <<>>,
             expenses |-> <<>>, balances |-> <<>>, full |-> TRUE]
\* Groups as mounted: groupMembers [] and groupExpenses [], no call made
LdIdle == [loads |-> <<IdleLoad, IdleLoad>>, groupMembers |-> <<>>,
           groupExpenses |-> <<>>, started |-> <<>>, finished |-> <<>>,
           overlap |-> FALSE,
           selected |-> ""]

\* Groups as mounted, as far as createGroup goes: the dialog closed, the form
\* empty, no group stored.  calls counts the calls of createGroup, closed the
\* times it closed the dialog, loadGroups its calls of loadGroups.
CgIdle == [showCreateModal |-> FALSE, newGroupName |-> <<>>,
           newGroupType |-> "other", pc |-> "idle", groups |-> {},
           members |-> {}, group |-> 0, calls |-> 0, closed |-> 0,
           loadGroups |-> 0]
\* AppContent as mounted under a session that is still loading
AppIdle == [loading |-> TRUE, user |-> "", currentPage |-> "dashboard",
            authMode |-> "login", isSidebarOpen |-> FALSE]
\* Dashboard as mounted: summary { today: 0, week: 0, month: 0, year: 0 },
\* loading true; now is the clock's date, expenses the user's rows
NoDate == [y |-> 0, m |-> 0, d |-> 0]
DbIdle == [now |-> NoDate, expenses |-> <<>>, pc |-> "idle", loading |-> TRUE,
           todayStart |-> NoDate, weekStart |-> NoDate,
           monthStart |-> NoDate, yearStart |-> NoDate,
           summary |-> [today |-> 0, week |-> 0, month |-> 0, year |-> 0]]
\* Insights as mounted: insights [], analysis null, loading true; day is
\* now.getDate(), current and previous the user's rows of the two months
NoAnalysis == [currentMonth |-> 0, previousMonth |-> 0,
               percentageChange |-> <<0, 1>>,
               topCategory |-> [name |-> "", amount |-> 0], set |-> FALSE]
InsIdle == [day |-> 1, current |-> {}, previous |-> {}, pc |-> "idle",
            loading |-> TRUE, rows |-> {}, analysis |-> NoAnalysis,
            insights |-> <<>>]

\* the pages not taking part: their state as mounted, and the group_members
\* rows of the group
PagesIdle ==
    /\ group_members = GroupMembers
    /\ cg = CgIdle /\ app = AppIdle /\ db = DbIdle /\ ins = InsIdle

----------------------------------------------------------------------------
\* AddGroupExpenseModal and the storage behind it.  The user leaves the form
\* alone while a submission is in flight (the submit button is disabled then).
\* inserts, outcome and calls describe the handleSubmit that has just run;
\* the next thing the user does to the form clears them.

Forget == inserts' = 0 /\ outcome' = "none" /\ calls' = NoCalls

\* Groups: onClick={() => setShowAddExpenseModal(true)}; the modal mounts with
\* the initial values of its useState calls.
OpenAddExpenseModal ==
    /\ ~showAddExpenseModal /\ pc = "idle"
    /\ showAddExpenseModal' = TRUE
    /\ amount' = <<>> /\ splitType' = "equal" /\ splits' = <<>>
    /\ loading' = FALSE /\ error' = NoError
    /\ Forget
    /\ UNCHANGED <<pc, expense>>
    /\ UNCHANGED <<storageVars, groupsVars, otherVars>>

\* onChange of the amount field, then the useEffect on [splitType, amount,
\* members].
SetAmount(a) ==
    /\ showAddExpenseModal /\ ~loading
    /\ a # amount
    /\ amount' = a
    /\ splits' = EqualSplits(a, splitType, GroupMembers, splits)
    /\ Forget
    /\ UNCHANGED <<showAddExpenseModal, splitType, loading, error, pc, expense>>
    /\ UNCHANGED <<storageVars, groupsVars, otherVars>>

\* onChange of the split type select, then the same useEffect.
SetSplitType(t) ==
    /\ showAddExpenseModal /\ ~loading
    /\ t # splitType
    /\ splitType' = t
    /\ splits' = EqualSplits(amount, t, GroupMembers, splits)
    /\ Forget
    /\ UNCHANGED <<showAddExpenseModal, amount, loading, error, pc, expense>>
    /\ UNCHANGED <<storageVars, groupsVars, otherVars>>

\* onChange of a member's split field (disabled under 'equal').
HandleSplitChange(userId, cents) ==
    /\ showAddExpenseModal /\ ~loading
    /\ splitType # "equal"
    /\ splits' = SplitChanged(splits, userId, cents)
    /\ splits' # splits
    /\ Forget
    /\ UNCHANGED <<showAddExpenseModal, amount, splitType, loading, error, pc,
                   expense>>
    /\ UNCHANGED <<storageVars, groupsVars, otherVars>>

\* The X button: onClose, outside a submission.
CloseModal ==
    /\ showAddExpenseModal /\ pc = "idle" /\ ~loading
    /\ showAddExpenseModal' = FALSE
    /\ amount' = <<>> /\ splitType' = "equal" /\ splits' = <<>>
    /\ error' = NoError
    /\ Forget
    /\ UNCHANGED <<loading, pc, expense>>
    /\ UNCHANGED <<storageVars, groupsVars, otherVars>>

\* The validation fails: setError(`Split total (${totalSplit}) must equal
\* expense amount (${expenseAmount})`), setLoading(false), return.
RejectSubmissionWrong ==
    /\ error' = [NoError EXCEPT !.kind = "validation",
                                !.totalSplit = TotalSplit(splits),
                                !.expenseAmount = amount[1] * Scale]
    /\ loading' = TRUE
    /\ pc' = "idle"
    /\ inserts' = 0
    /\ outcome' = "validation"

RejectSubmission ==
    /\ error' = [NoError EXCEPT !.kind = "validation",
                                !.totalSplit = TotalSplit(splits),
                                !.expenseAmount = amount[1] * Scale]
    /\ loading' = FALSE
    /\ pc' = "idle"
    /\ inserts' = 0
    /\ outcome' = "validation"

\* handleSubmit up to its first await: setError(''), setLoading(true), the
\* validation, and either the early return or the group_expenses insert.
\* The amount field is required, the button is disabled while loading.
HandleSubmit ==
    /\ showAddExpenseModal /\ ~loading /\ pc = "idle"
    /\ amount # <<>>
    /\ Len(group_expenses) < MaxExpenses
    /\ calls' = NoCalls
    /\ IF SplitMismatch(splits, amount[1])
       THEN RejectSubmission
       ELSE /\ error' = NoError
            /\ loading' = TRUE
            /\ pc' = "expense"
            /\ inserts' = 1
            /\ outcome' = "pending"
    /\ UNCHANGED <<showAddExpenseModal, amount, splitType, splits, expense>>
    /\ UNCHANGED <<storageVars, groupsVars, otherVars>>

\* The group_expenses insert fails: setError(expenseError.message),
\* setLoading(false), return.
ExpenseInsertFailsWrong ==
    /\ pc = "expense"
    /\ IF inserts < 2
       THEN /\ inserts' = inserts + 1
            /\ UNCHANGED <<error, loading, pc, outcome>>
       ELSE /\ error' = [NoError EXCEPT !.kind = "storage",
                                        !.message = "expenseError"]
            /\ loading' = FALSE
            /\ pc' = "idle"
            /\ outcome' = "expense_failed"
            /\ UNCHANGED inserts
    /\ UNCHANGED <<showAddExpenseModal, amount, splitType, splits, expense,
                   calls>>
    /\ UNCHANGED <<storageVars, groupsVars, otherVars>>

ExpenseInsertFails ==
    /\ pc = "expense"
    /\ error' = [NoError EXCEPT !.kind = "storage", !.message = "expenseError"]
    /\ loading' = FALSE
    /\ pc' = "idle"
    /\ outcome' = "expense_failed"
    /\ UNCHANGED <<showAddExpenseModal, amount, splitType, splits, expense,
                   inserts, calls>>
    /\ UNCHANGED <<storageVars, groupsVars, otherVars>>

\* The group_expenses insert succeeds: the row exists, and handleSubmit goes
\* on to issue the expense_splits insert.
ExpenseInsertSucceeds ==
    /\ pc = "expense"
    /\ LET row == [id |-> Len(group_expenses) + 1, group_id |-> GroupId,
                   paid_by |-> user, amount |-> amount[1]]
       IN  /\ group_expenses' = Append(group_expenses, row)
           /\ expense' = row
    /\ pc' = "splits"
    /\ inserts' = 2
    /\ UNCHANGED <<showAddExpenseModal, amount, splitType, splits, loading,
                   error, outcome, calls>>
    /\ UNCHANGED <<expense_splits, groupsVars, otherVars>>

\* The expense_splits insert fails: setError(splitsError.message),
\* setLoading(false), return.  Nothing is deleted.
SplitsInsertFailsWrong ==
    /\ pc = "splits"
    /\ group_expenses' = SubSeq(group_expenses, 1, Len(group_expenses) - 1)
    /\ error' = [NoError EXCEPT !.kind = "storage", !.message = "splitsError"]
    /\ loading' = FALSE
    /\ pc' = "idle"
    /\ outcome' = "splits_failed"
    /\ expense' = NoExpense
    /\ UNCHANGED <<showAddExpenseModal, amount, splitType, splits, inserts, calls>>
    /\ UNCHANGED <<expense_splits, groupsVars, otherVars>>

SplitsInsertFails ==
    /\ pc = "splits"
    /\ error' = [NoError EXCEPT !.kind = "storage", !.message = "splitsError"]
    /\ loading' = FALSE
    /\ pc' = "idle"
    /\ outcome' = "splits_failed"
    /\ expense' = NoExpense
    /\ UNCHANGED <<showAddExpenseModal, amount, splitType, splits, inserts, calls>>
    /\ UNCHANGED <<storageVars, groupsVars, otherVars>>

\* The expense_splits insert succeeds: setLoading(false), onSuccess(),
\* onClose() (Groups unmounts the modal).
SplitsInsertSucceeds ==
    /\ pc = "splits"
    /\ expense_splits' = expense_splits \cup SplitRows(expense.id, splits)
    /\ loading' = FALSE
    /\ pc' = "idle"
    /\ outcome' = "success"
    /\ calls' = [onSuccess |-> 1, onClose |-> 1]
    /\ expense' = NoExpense
    /\ showAddExpenseModal' = FALSE
    /\ amount' = <<>> /\ splitType' = "equal" /\ splits' = <<>>
    /\ UNCHANGED <<error, inserts>>
    /\ UNCHANGED <<group_expenses, groupsVars, otherVars>>

----------------------------------------------------------------------------
\* Groups page: balances

\* calculateBalances with both selects answered: setBalances(balanceList).
\* (When a select returns no data, setBalances is not called.)
CalculateBalancesDone ==
    /\ balances' = CalculateBalances(GroupId, group_expenses, expense_splits)
    /\ balances' # balances
    /\ UNCHANGED user
    /\ UNCHANGED <<storageVars, modalVars, otherVars>>

\* Sign-out and sign-in as another member: AppContent unmounts the pages, and
\* Groups mounts again with its initial state.
SignInAs(u) ==
    /\ ~showAddExpenseModal /\ pc = "idle"
    /\ u # user
    /\ user' = u
    /\ balances' = <<>>
    /\ UNCHANGED <<storageVars, modalVars, otherVars>>

----------------------------------------------------------------------------
\* The specification of group-expense entry and balances

Init ==
    /\ StorageEmpty
    /\ user \in Range(GroupMembers)
    /\ balances = <<>>
    /\ ModalClosed
    /\ st = StIdle /\ ae = AeIdle /\ lg = LgIdle /\ sn = SnIdle /\ gp = GpIdle
    /\ eq = EqIdle /\ ld = LdIdle /\ PagesIdle

Next ==
    \/ OpenAddExpenseModal
    \/ \E a \in {<<>>} \cup {<<c>> : c \in Amounts} : SetAmount(a)
    \/ \E t \in {"equal", "unequal"} : SetSplitType(t)
    \/ \E u \in Range(GroupMembers), c \in SplitInputs : HandleSplitChange(u, c)
    \/ CloseModal
    \/ HandleSubmit
    \/ ExpenseInsertFails
    \/ ExpenseInsertSucceeds
    \/ SplitsInsertFails
    \/ SplitsInsertSucceeds
    \/ \E u \in Range(GroupMembers) : SignInAs(u)

Spec == Init /\ [][Next]_vars

----------------------------------------------------------------------------
\* Groups page: the settle button, over the data handleSubmit can have stored

\* The note of the settle button: `Splitzee settlement for ${currentGroup?.name}`
SettleNote ==
    <<"S", "p", "l", "i", "t", "z", "e", "e", " ", "s", "e", "t", "t", "l", "e",
      "m", "e", "n", "t", " ", "f", "o", "r", " ">> \o GroupName

\* upiId: 'merchant@upi'
MerchantUpi == <<"m", "e", "r", "c", "h", "a", "n", "t", "@", "u", "p", "i">>

\* balances.find(b => b.balance > 0): the index of the first, or 0
FirstCreditorWrong(list) ==
    IF \E i \in DOMAIN list : list[i].balance >= 0
    THEN CHOOSE i \in DOMAIN list :
            /\ list[i].balance >= 0
            /\ \A j \in 1..(i - 1) : ~(list[j].balance >= 0)
    ELSE 0

FirstCreditor(list) ==
    IF \E i \in DOMAIN list : list[i].balance > 0
    THEN CHOOSE i \in DOMAIN list :
            /\ list[i].balance > 0
            /\ \A j \in 1..(i - 1) : ~(list[j].balance > 0)
    ELSE 0

\* amount: Math.abs(balance.balance)
SettleAmountWrong(b) == b

SettleAmount(b) == Abs(b)

\* The banner of the signed-in user's balance:
\* balance > 0 ? 'You are owed' : balance < 0 ? 'You owe' : 'All settled up'
BalanceLabel(b) ==
    IF b > 0 THEN "You are owed"
    ELSE IF b < 0 THEN "You owe"
    ELSE "All settled up"

\* balance.balance < 0 && balance.user_id === user!.id
SettleOffered(row, u) == row.balance < 0 /\ row.user_id = u

\* The settle button, rendered on row i when balance.balance < 0 and
\* balance.user_id === user.id.  With a creditor: openGooglePay(params), which
\* sets window.location.href to generateGooglePayUrl(params); without one
\* nothing happens.
SettleClick(i) ==
    /\ i \in DOMAIN balances
    /\ SettleOffered(balances[i], user)
    /\ LET c == FirstCreditor(balances)
       IN  IF c # 0
           THEN st' = [clicked |-> TRUE, balance |-> balances[i].balance,
                       creditor |-> balances[c].user_id,
                       href |-> GenerateGooglePayUrl(MerchantUpi,
                                    SettleAmount(balances[i].balance),
                                    balances[c].user_name, SettleNote)]
           ELSE st' = [st EXCEPT !.clicked = TRUE,
                                 !.balance = balances[i].balance,
                                 !.creditor = ""]
    /\ st' # st
    /\ UNCHANGED <<user, balances, storageVars, modalVars, extraVars, ae, lg, sn, gp>>

\* The split sets the modal can hold: typed values on any subset of the
\* members, or, once the equal-split effect has run, a value for every member
\* that is typed or left by the effect.
\* (50.01 can be typed as well: 0 + 50.01 - 50 gives 0.00999999999999801 and
\* 50.01 + 50 - 100 gives 0.009999999999990905, both accepted.)
TypedValues == {c * Scale : c \in SplitInputs \cup {5001}}
EqualValues == {(c * Scale) \div Len(GroupMembers) : c \in Amounts}
Forms ==
    UNION {[D -> TypedValues] : D \in SUBSET Range(GroupMembers)}
        \cup [Range(GroupMembers) -> TypedValues \cup EqualValues]

\* What one handleSubmit can add to storage: a row of group_expenses and
\* either the rows of a split set that passed the validation, or nothing
\* (the expense_splits insert failed).
Written ==
    { [paid_by |-> u, amount |-> c, splits |-> sp, orphan |-> FALSE] :
        u \in Range(GroupMembers), c \in Amounts, sp \in Forms }
    \cup
    { [paid_by |-> u, amount |-> c, splits |-> <<>>, orphan |-> TRUE] :
        u \in Range(GroupMembers), c \in Amounts }

Acceptable(w) == w.orphan \/ ~SplitMismatch(w.splits, w.amount)

RECURSIVE StoreAll(_, _, _)
\* storage after the submissions ws, in order
StoreAll(ws, rows, allSplits) ==
    IF ws = <<>> THEN <<rows, allSplits>>
    ELSE LET w == Head(ws)
             id == Len(rows) + 1
         IN  StoreAll(Tail(ws),
                Append(rows, [id |-> id, group_id |-> GroupId,
                              paid_by |-> w.paid_by, amount |-> w.amount]),
                allSplits \cup
                    (IF w.orphan THEN {} ELSE SplitRows(id, w.splits)))

StoredData ==
    LET ok == {w \in Written : Acceptable(w)}
    IN  { StoreAll(ws, <<>>, {}) :
            ws \in UNION {[1..n -> ok] : n \in 0..MaxExpenses} }

InitGroups ==
    /\ \E d \in StoredData : group_expenses = d[1] /\ expense_splits = d[2]
    /\ user \in Range(GroupMembers)
    /\ balances = <<>>
    /\ ModalClosed
    /\ st = StIdle /\ ae = AeIdle /\ lg = LgIdle /\ sn = SnIdle /\ gp = GpIdle
    /\ eq = EqIdle /\ ld = LdIdle /\ PagesIdle

NextGroups ==
    \/ CalculateBalancesDone
    \/ \E i \in 1..Len(GroupMembers) : SettleClick(i)
    \/ \E u \in Range(GroupMembers) : SignInAs(u)

SpecGroups == InitGroups /\ [][NextGroups]_vars

----------------------------------------------------------------------------
\* Groups page: balances of a group whose members leave.  The expenses were
\* stored while A and B were members; the policy "Users can remove
\* themselves from groups" lets a member delete a group_members row.

LeaveGroup(u) ==
    /\ u \in Range(group_members)
    /\ group_members' = SelectSeq(group_members, LAMBDA m : m # u)
    /\ UNCHANGED <<storageVars, groupsVars, modalVars, st, ae, lg, sn, gp,
                   eq, ld, cg, app, db, ins>>

\* calculateBalances with both selects answered, over the group_members rows
\* there are: setBalances(balanceList)
MembersBalancesDone ==
    /\ balances' =
          BalanceList(BalanceMap(<<>>,
                                 ExpensesOfGroup(GroupId, group_expenses),
                                 expense_splits),
                      group_members)
    /\ balances' # balances
    /\ UNCHANGED user
    /\ UNCHANGED <<storageVars, modalVars, otherVars>>

InitMembers ==
    /\ \E d \in StoredData : group_expenses = d[1] /\ expense_splits = d[2]
    /\ user = "A"
    /\ balances = <<>>
    /\ ModalClosed
    /\ st = StIdle /\ ae = AeIdle /\ lg = LgIdle /\ sn = SnIdle /\ gp = GpIdle
    /\ eq = EqIdle /\ ld = LdIdle /\ PagesIdle

NextMembers ==
    \/ \E u \in Range(GroupMembers) : LeaveGroup(u)
    \/ MembersBalancesDone

SpecMembers == InitMembers /\ [][NextMembers]_vars

----------------------------------------------------------------------------
\* Groups page: the settle button over the balance lists of a group of three

SettleMembers == <<"A", "B", "C">>

\* balances a member can be shown: 50.00 either way, 25.00 owed to the
\* member, nothing, or the 0.01 by which the splits of an accepted expense
\* can exceed its amount
SettleBalances == {-5000, -1, 0, 2500, 5000}

\* The lists calculateBalances can have set for the group: one row per
\* member; over MaxExpenses accepted expenses the splits exceed the amounts
\* by at most 0.01 each, so the balances sum to no less than that.
BalanceLists ==
    { [i \in DOMAIN SettleMembers |-> BalanceRow(m, SettleMembers[i])] :
        m \in { f \in [Range(SettleMembers) -> SettleBalances] :
                    SumOver(f, Range(SettleMembers)) >= -MaxExpenses } }

InitSettle ==
    /\ StorageEmpty
    /\ user \in Range(SettleMembers)
    /\ balances \in BalanceLists
    /\ ModalClosed
    /\ st = StIdle /\ ae = AeIdle /\ lg = LgIdle /\ sn = SnIdle /\ gp = GpIdle
    /\ eq = EqIdle /\ ld = LdIdle /\ PagesIdle

NextSettle == \E i \in DOMAIN SettleMembers : SettleClick(i)

SpecSettle == InitSettle /\ [][NextSettle]_vars

----------------------------------------------------------------------------
\* Groups page: two calls of loadGroupDetails.  A call is made by the effect
\* on selectedGroup or by onSuccess of the modal, and works on the
\* selectedGroup of the render that made it.  Each select answers with data
\* or with data: null.  Meanwhile a submission of any client can add an
\* expense with its splits.

LoadGroups == {GroupId, "g2"}
LoadIds == DOMAIN LdIdle.loads

\* selectedGroup is g: loadGroupDetails is called and issues the
\* group_members select.
LdStart(k, g) ==
    /\ k = Len(ld.started) + 1
    /\ ld.selected \in {"", g}
    /\ ld' = [ld EXCEPT !.loads[k].pc = "members", !.loads[k].group = g,
                        !.selected = g,
                        !.started = Append(@, k),
                        !.overlap = @ \/ \E j \in DOMAIN ld.loads :
                                        ld.loads[j].pc \notin {"idle", "done"}]
    /\ UNCHANGED <<storageVars, groupsVars, modalVars, st, ae, lg, sn, gp, eq, pageVars>>

\* "Back to Groups": setSelectedGroup(null); the calls under way go on.
LdBack ==
    /\ ld.selected # ""
    /\ ld' = [ld EXCEPT !.selected = ""]
    /\ UNCHANGED <<storageVars, groupsVars, modalVars, st, ae, lg, sn, gp, eq, pageVars>>

\* The group_members select answers: with data setGroupMembers(...); then
\* the group_expenses select is issued.
LdMembers(k, ok) ==
    /\ ld.loads[k].pc = "members"
    /\ LET ms == <<ld.loads[k].group, GroupMembers>>
       IN  ld' = IF ok
                 THEN [ld EXCEPT !.loads[k].pc = "expenses",
                                 !.loads[k].members = ms,
                                 !.groupMembers = ms]
                 ELSE [ld EXCEPT !.loads[k].pc = "expenses",
                                 !.loads[k].full = FALSE]
    /\ UNCHANGED <<storageVars, groupsVars, modalVars, st, ae, lg, sn, gp, eq, pageVars>>

\* The group_expenses select answers: with data setGroupExpenses(...); then
\* calculateBalances is called and issues its group_expenses select.
LdExpenses(k, ok) ==
    /\ ld.loads[k].pc = "expenses"
    /\ LET es == <<ld.loads[k].group,
                   ExpensesOfGroup(ld.loads[k].group, group_expenses)>>
       IN  ld' = IF ok
                 THEN [ld EXCEPT !.loads[k].pc = "balanceExpenses",
                                 !.loads[k].expenses = es,
                                 !.groupExpenses = es]
                 ELSE [ld EXCEPT !.loads[k].pc = "balanceExpenses",
                                 !.loads[k].full = FALSE]
    /\ UNCHANGED <<storageVars, groupsVars, modalVars, st, ae, lg, sn, gp, eq, pageVars>>

\* calculateBalances: its group_expenses select answers.  With data the
\* balanceMap is built and the group_members select is issued; without,
\* calculateBalances and loadGroupDetails return.
LdBalanceExpenses(k, ok) ==
    /\ ld.loads[k].pc = "balanceExpenses"
    /\ ld' = IF ok
             THEN [ld EXCEPT !.loads[k].pc = "balanceMembers",
                             !.loads[k].map =
                                BalanceMap(<<>>,
                                    ExpensesOfGroup(ld.loads[k].group,
                                                    group_expenses),
                                    expense_splits)]
             ELSE [ld EXCEPT !.loads[k].pc = "done",
                             !.loads[k].full = FALSE,
                             !.finished = Append(@, k)]
    /\ UNCHANGED <<storageVars, groupsVars, modalVars, st, ae, lg, sn, gp, eq, pageVars>>

\* calculateBalances: its group_members select answers.  With data
\* setBalances(balanceList); then calculateBalances and loadGroupDetails
\* return.
LdBalanceMembersWrong(k, ok) ==
    /\ ld.loads[k].pc = "balanceMembers"
    /\ LET bl == BalanceList(ld.loads[k].map, GroupMembers)
       IN  /\ ld' = [ld EXCEPT !.loads[k].pc = "done",
                               !.loads[k].balances = IF ok THEN bl ELSE @,
                               !.loads[k].full = @ /\ ok,
                               !.finished = Append(@, k)]
           /\ balances' = IF ok THEN bl ELSE balances
    /\ expense_splits' =
          {x \in expense_splits : x.group_expense_id \in
              {group_expenses[i].id : i \in DOMAIN group_expenses}}
    /\ group_expenses' =
          SelectSeq(group_expenses,
                    LAMBDA e : SplitsOf(e, expense_splits) # {})
    /\ UNCHANGED <<user, modalVars, st, ae, lg, sn, gp, eq, pageVars>>

LdBalanceMembers(k, ok) ==
    /\ ld.loads[k].pc = "balanceMembers"
    /\ LET bl == BalanceList(ld.loads[k].map, GroupMembers)
       IN  /\ ld' = [ld EXCEPT !.loads[k].pc = "done",
                               !.loads[k].balances = IF ok THEN bl ELSE @,
                               !.loads[k].full = @ /\ ok,
                               !.finished = Append(@, k)]
           /\ balances' = IF ok THEN bl ELSE balances
    /\ UNCHANGED <<storageVars, user, modalVars, st, ae, lg, sn, gp, eq, pageVars>>

\* A handleSubmit of A completes for group g: an expense of 50.00 is stored,
\* with its equal splits or, when the expense_splits insert failed, without.
LdSubmitted(g, withSplits) ==
    /\ Len(group_expenses) < MaxExpenses
    /\ LET id == Len(group_expenses) + 1
       IN  /\ group_expenses' =
                 Append(group_expenses,
                        [id |-> id, group_id |-> g, paid_by |-> "A",
                         amount |-> 5000])
           /\ expense_splits' =
                 IF withSplits
                 THEN expense_splits \cup
                        SplitRows(id, EqualSplits(<<5000>>, "equal",
                                                  GroupMembers, <<>>))
                 ELSE expense_splits
    /\ UNCHANGED <<groupsVars, modalVars, otherVars>>

InitLoads ==
    /\ StorageEmpty
    /\ user = "A"
    /\ balances = <<>>
    /\ ModalClosed
    /\ st = StIdle /\ ae = AeIdle /\ lg = LgIdle /\ sn = SnIdle /\ gp = GpIdle
    /\ eq = EqIdle /\ ld = LdIdle /\ PagesIdle

NextLoads ==
    \/ \E k \in LoadIds, g \in LoadGroups : LdStart(k, g)
    \/ LdBack
    \/ \E k \in LoadIds, ok \in BOOLEAN : LdMembers(k, ok)
    \/ \E k \in LoadIds, ok \in BOOLEAN : LdExpenses(k, ok)
    \/ \E k \in LoadIds, ok \in BOOLEAN : LdBalanceExpenses(k, ok)
    \/ \E k \in LoadIds, ok \in BOOLEAN : LdBalanceMembers(k, ok)
    \/ \E g \in LoadGroups, w \in BOOLEAN : LdSubmitted(g, w)

SpecLoads == InitLoads /\ [][NextLoads]_vars

----------------------------------------------------------------------------
\* One client submits expenses with equal splits through the modal, and both
\* of its inserts succeed; meanwhile the Groups page of another client loads
\* the details of the same group.

NextReader ==
    \/ OpenAddExpenseModal
    \/ \E a \in {<<c>> : c \in Amounts} : SetAmount(a)
    \/ HandleSubmit
    \/ ExpenseInsertSucceeds
    \/ SplitsInsertSucceeds
    \/ \E k \in LoadIds : LdStart(k, GroupId)
    \/ \E k \in LoadIds, ok \in BOOLEAN : LdMembers(k, ok)
    \/ \E k \in LoadIds, ok \in BOOLEAN : LdExpenses(k, ok)
    \/ \E k \in LoadIds, ok \in BOOLEAN : LdBalanceExpenses(k, ok)
    \/ \E k \in LoadIds, ok \in BOOLEAN : LdBalanceMembers(k, ok)

SpecReader == InitLoads /\ [][NextReader]_vars

----------------------------------------------------------------------------
\* AddExpense page: handleSubmit

\* handleSubmit up to its first await: setError(''), setLoading(true),
\* setSuccess(false); without a user it returns there.  The submit button is
\* disabled while loading.
AeHandleSubmit ==
    /\ ae.pc # "insert" /\ ~ae.loading
    /\ ae.rows < MaxRows
    /\ ae' = [ae EXCEPT !.error = "", !.loading = TRUE, !.success = FALSE,
                        !.pc = IF ae.user = "null" THEN "done" ELSE "insert"]
    /\ UNCHANGED <<storageVars, groupsVars, modalVars, extraVars, st, lg, sn, gp>>

\* The expenses insert fails: setError(error.message), then setLoading(false).
AeInsertFails ==
    /\ ae.pc = "insert"
    /\ ae' = [ae EXCEPT !.error = "insertError", !.loading = FALSE, !.pc = "done"]
    /\ UNCHANGED <<storageVars, groupsVars, modalVars, extraVars, st, lg, sn, gp>>

\* The expenses insert succeeds: setSuccess(true), the form is cleared, the
\* timer is started, then setLoading(false).
AeInsertSucceeds ==
    /\ ae.pc = "insert"
    /\ ae' = [ae EXCEPT !.rows = @ + 1, !.success = TRUE, !.timer = TRUE,
                        !.loading = FALSE, !.pc = "done"]
    /\ UNCHANGED <<storageVars, groupsVars, modalVars, extraVars, st, lg, sn, gp>>

\* setTimeout(() => setSuccess(false), 3000)
AeTimeout ==
    /\ ae.timer
    /\ ae' = [ae EXCEPT !.success = FALSE, !.timer = FALSE]
    /\ UNCHANGED <<storageVars, groupsVars, modalVars, extraVars, st, lg, sn, gp>>

----------------------------------------------------------------------------
\* Groups page: loadGroups.  A select answers with data (n rows) or with
\* data: null.

\* loadGroups up to its first await: setLoading(true).
LgStart ==
    /\ lg.pc \in {"idle", "done"}
    /\ lg' = [lg EXCEPT !.pc = "memberGroups", !.loading = TRUE]
    /\ UNCHANGED <<storageVars, groupsVars, modalVars, extraVars, st, ae, sn, gp>>

\* The group_members select answers.  With rows the groups select is issued;
\* otherwise setGroups([]) and setLoading(false).
LgMemberGroups(ok, n) ==
    /\ lg.pc = "memberGroups"
    /\ IF ok /\ n > 0
       THEN lg' = [lg EXCEPT !.pc = "groups", !.ids = n]
       ELSE lg' = [lg EXCEPT !.pc = "done", !.groups = 0, !.ids = 0,
                             !.loading = FALSE]
    /\ UNCHANGED <<storageVars, groupsVars, modalVars, extraVars, st, ae, sn, gp>>

\* The groups select answers.  With data, Promise.all awaits two selects per
\* group (with no group it resolves at once); without, setLoading(false).
LgGroups(ok, n) ==
    /\ lg.pc = "groups"
    /\ n <= lg.ids
    /\ IF ok /\ n > 0
       THEN lg' = [lg EXCEPT !.pc = "enrich", !.left = 2 * n, !.ids = n]
       ELSE lg' = [lg EXCEPT !.pc = "done", !.loading = FALSE, !.ids = 0,
                             !.groups = IF ok THEN 0 ELSE @]
    /\ UNCHANGED <<storageVars, groupsVars, modalVars, extraVars, st, ae, sn, gp>>

\* One select of the enrichment answers (its data may be null: the count and
\* the total then default to 0); after the last one setGroups(enrichedGroups)
\* and setLoading(false).
LgEnrich ==
    /\ lg.pc = "enrich"
    /\ IF lg.left > 1
       THEN lg' = [lg EXCEPT !.left = @ - 1]
       ELSE lg' = [lg EXCEPT !.left = 0, !.pc = "done", !.groups = lg.ids,
                             !.ids = 0, !.loading = FALSE]
    /\ UNCHANGED <<storageVars, groupsVars, modalVars, extraVars, st, ae, sn, gp>>

InitForms ==
    /\ StorageEmpty
    /\ user = "A"
    /\ balances = <<>>
    /\ ModalClosed
    /\ ae \in {[AeIdle EXCEPT !.user = u] : u \in {"A", "null"}}
    /\ lg = LgIdle
    /\ st = StIdle /\ sn = SnIdle /\ gp = GpIdle
    /\ eq = EqIdle /\ ld = LdIdle /\ PagesIdle

NextForms ==
    \/ AeHandleSubmit
    \/ AeInsertFails
    \/ AeInsertSucceeds
    \/ AeTimeout
    \/ LgStart
    \/ \E ok \in BOOLEAN, n \in 0..MaxGroups : LgMemberGroups(ok, n)
    \/ \E ok \in BOOLEAN, n \in 0..MaxGroups : LgGroups(ok, n)
    \/ LgEnrich

SpecForms == InitForms /\ [][NextForms]_vars

----------------------------------------------------------------------------
\* sendNotification

NotificationTypes == {"group_created", "expense_added", "settlement",
                      "monthly_report"}

\* A call of sendNotification up to its await: the fetch is issued.
SnCall(t) ==
    /\ sn.pc \in {"idle", "done"}
    /\ sn.calls < MaxCalls
    /\ sn' = [sn EXCEPT !.pc = "fetch", !.type = t, !.calls = @ + 1,
                        !.requests = 1, !.total = @ + 1, !.log = "",
                        !.result = "pending"]
    /\ UNCHANGED <<storageVars, groupsVars, modalVars, extraVars, st, ae, lg, gp>>

\* fetch rejects: the catch logs and the function returns.
SnFetchThrowsWrong ==
    /\ sn.pc = "fetch"
    /\ sn' = IF sn.requests < 2
             THEN [sn EXCEPT !.requests = @ + 1, !.total = @ + 1]
             ELSE [sn EXCEPT !.pc = "done", !.logged = @ + 1,
                             !.log = "Error sending notification:",
                             !.result = "resolved"]
    /\ UNCHANGED <<storageVars, groupsVars, modalVars, extraVars, st, ae, lg, gp>>

SnFetchThrows ==
    /\ sn.pc = "fetch"
    /\ sn' = [sn EXCEPT !.pc = "done", !.logged = @ + 1,
                        !.log = "Error sending notification:",
                        !.result = "resolved"]
    /\ UNCHANGED <<storageVars, groupsVars, modalVars, extraVars, st, ae, lg, gp>>

\* fetch resolves with response.ok: the function returns.
SnFetchOk ==
    /\ sn.pc = "fetch"
    /\ sn' = [sn EXCEPT !.pc = "done", !.result = "resolved"]
    /\ UNCHANGED <<storageVars, groupsVars, modalVars, extraVars, st, ae, lg, gp>>

\* fetch resolves with !response.ok: await response.text().
SnFetchNotOk ==
    /\ sn.pc = "fetch"
    /\ sn' = [sn EXCEPT !.pc = "text"]
    /\ UNCHANGED <<storageVars, groupsVars, modalVars, extraVars, st, ae, lg, gp>>

\* response.text() resolves (console.error of the body) or rejects (the
\* catch logs): either way one line is logged and the function returns.
SnTextSettles(resolved) ==
    /\ sn.pc = "text"
    /\ sn' = [sn EXCEPT !.pc = "done", !.logged = @ + 1,
                        !.log = IF resolved THEN "Failed to send notification:"
                                ELSE "Error sending notification:",
                        !.result = "resolved"]
    /\ UNCHANGED <<storageVars, groupsVars, modalVars, extraVars, st, ae, lg, gp>>

InitNotify ==
    /\ StorageEmpty
    /\ user = "A"
    /\ balances = <<>>
    /\ ModalClosed
    /\ sn = SnIdle
    /\ st = StIdle /\ ae = AeIdle /\ lg = LgIdle /\ gp = GpIdle
    /\ eq = EqIdle /\ ld = LdIdle /\ PagesIdle

NextNotify ==
    \/ \E t \in NotificationTypes : SnCall(t)
    \/ SnFetchThrows
    \/ SnFetchOk
    \/ SnFetchNotOk
    \/ \E r \in BOOLEAN : SnTextSettles(r)

SpecNotify == InitNotify /\ [][NextNotify]_vars

----------------------------------------------------------------------------
\* generateGooglePayUrl called on two parameter objects, one after the other

RECURSIVE Strings(_, _)
\* the strings over the characters cs of length at most n
Strings(cs, n) ==
    IF n = 0 THEN {<<>>}
    ELSE LET shorter == Strings(cs, n - 1)
         IN  shorter \cup {Append(str, c) : str \in shorter, c \in cs}

UrlInputs ==
    [upiId : {MerchantUpi, <<"a", "&", "p", "n", "=">>},
     amount : {5, 50, 2500},
     name : Strings({" ", "+", "&"}, MaxLen),
     note : {<<>>, <<"t", "n", "=", "1">>}]

GpCallWrong ==
    /\ gp.called < 2
    /\ gp' = IF gp.called = 0
             THEN [gp EXCEPT !.called = 1,
                     !.up = GenerateGooglePayUrl(gp.p.upiId, gp.p.amount,
                                                 gp.p.name, gp.p.note),
                     !.href = GenerateGooglePayUrl(gp.p.upiId, gp.p.amount,
                                                   gp.p.name, gp.p.note),
                     !.nav = @ + 1]
             ELSE [gp EXCEPT !.called = 2,
                     !.uq = GenerateGooglePayUrl(gp.q.upiId, gp.q.amount,
                                                 gp.q.name, gp.q.note)]
    /\ UNCHANGED <<storageVars, groupsVars, modalVars, extraVars, st, ae, lg, sn>>

GpCall ==
    /\ gp.called < 2
    /\ gp' = IF gp.called = 0
             THEN [gp EXCEPT !.called = 1,
                     !.up = GenerateGooglePayUrl(gp.p.upiId, gp.p.amount,
                                                 gp.p.name, gp.p.note)]
             ELSE [gp EXCEPT !.called = 2,
                     !.uq = GenerateGooglePayUrl(gp.q.upiId, gp.q.amount,
                                                 gp.q.name, gp.q.note)]
    /\ UNCHANGED <<storageVars, groupsVars, modalVars, extraVars, st, ae, lg, sn>>

InitUrl ==
    /\ StorageEmpty
    /\ user = "A"
    /\ balances = <<>>
    /\ ModalClosed
    /\ gp \in {[GpIdle EXCEPT !.p = x, !.q = y] : x \in UrlInputs, y \in UrlInputs}
    /\ st = StIdle /\ ae = AeIdle /\ lg = LgIdle /\ sn = SnIdle
    /\ eq = EqIdle /\ ld = LdIdle /\ PagesIdle

NextUrl == GpCall

SpecUrl == InitUrl /\ [][NextUrl]_vars

----------------------------------------------------------------------------
\* generateGooglePayUrl and openGooglePay called by one page

\* the parameter objects the page holds
OpenChoices == {"p", "q"}

\* openGooglePay(gp[k]): const url = generateGooglePayUrl(params);
\* window.location.href = url
GpOpen(k) ==
    /\ gp.nav < MaxCalls
    /\ gp' = [gp EXCEPT !.href = GenerateGooglePayUrl(gp[k].upiId, gp[k].amount,
                                                      gp[k].name, gp[k].note),
                        !.nav = @ + 1,
                        !.opened = gp[k]]
    /\ UNCHANGED <<storageVars, groupsVars, modalVars, extraVars, st, ae, lg, sn>>

\* two parameter objects that differ at most in the name
InitOpen ==
    /\ StorageEmpty
    /\ user = "A"
    /\ balances = <<>>
    /\ ModalClosed
    /\ gp \in {[GpIdle EXCEPT !.p = x, !.q = [x EXCEPT !.name = n]] :
                x \in UrlInputs, n \in Strings({" ", "+", "&"}, MaxLen)}
    /\ st = StIdle /\ ae = AeIdle /\ lg = LgIdle /\ sn = SnIdle
    /\ eq = EqIdle /\ ld = LdIdle /\ PagesIdle

NextOpen ==
    \/ GpCall
    \/ \E k \in OpenChoices : GpOpen(k)

SpecOpen == InitOpen /\ [][NextOpen]_vars

----------------------------------------------------------------------------
\* AddGroupExpenseModal under the equal split policy, for the member lists
\* and amounts the parent can pass: the equal-split effect and the rows a
\* successful handleSubmit stores.  (Submissions of typed splits are followed
\* in Spec.)

\* members={groupMembers}
MemberLists == {<<"A">>, <<"A", "B">>, <<"A", "B", "C">>}

\* the amount field: '' or 100.00 + k cents
EqAmounts == {<<>>} \cup {<<9999 + k>> : k \in 1..MaxCents}

\* onChange of the amount field, then the equal-split effect
EqSetAmount(a) ==
    /\ ~eq.stored
    /\ a # eq.amount
    /\ eq' = [eq EXCEPT !.amount = a,
                        !.splits = EqualSplits(a, eq.splitType, eq.members,
                                               eq.splits)]
    /\ UNCHANGED <<storageVars, groupsVars, modalVars, st, ae, lg, sn, gp, ld, pageVars>>

\* onChange of the split type select, then the equal-split effect
EqSetSplitType(t) ==
    /\ ~eq.stored
    /\ t # eq.splitType
    /\ eq' = [eq EXCEPT !.splitType = t,
                        !.splits = EqualSplits(eq.amount, t, eq.members,
                                               eq.splits)]
    /\ UNCHANGED <<storageVars, groupsVars, modalVars, st, ae, lg, sn, gp, ld, pageVars>>

\* The parent renders the modal with another member list, then the
\* equal-split effect
EqSetMembers(ms) ==
    /\ ~eq.stored
    /\ ms # eq.members
    /\ eq' = [eq EXCEPT !.members = ms,
                        !.splits = EqualSplits(eq.amount, eq.splitType, ms,
                                               eq.splits)]
    /\ UNCHANGED <<storageVars, groupsVars, modalVars, st, ae, lg, sn, gp, ld, pageVars>>

\* handleSubmit under 'equal' with both inserts succeeding: the validation
\* passes and the rows of splitInserts are stored for the new expense.
EqSubmit ==
    /\ ~eq.stored
    /\ eq.splitType = "equal" /\ eq.amount # <<>>
    /\ ~SplitMismatch(eq.splits, eq.amount[1])
    /\ eq' = [eq EXCEPT !.rows = SplitRows(1, eq.splits), !.stored = TRUE]
    /\ UNCHANGED <<storageVars, groupsVars, modalVars, st, ae, lg, sn, gp, ld, pageVars>>

\* The modal is opened again: it mounts with its initial values
EqOpen ==
    /\ eq.stored
    /\ eq' = [EqIdle EXCEPT !.members = eq.members]
    /\ UNCHANGED <<storageVars, groupsVars, modalVars, st, ae, lg, sn, gp, ld, pageVars>>

InitSplit ==
    /\ StorageEmpty
    /\ user = "A"
    /\ balances = <<>>
    /\ ModalClosed
    /\ eq \in {[EqIdle EXCEPT !.members = ms] : ms \in MemberLists}
    /\ st = StIdle /\ ae = AeIdle /\ lg = LgIdle /\ sn = SnIdle /\ gp = GpIdle
    /\ ld = LdIdle /\ PagesIdle

NextSplit ==
    \/ \E a \in EqAmounts : EqSetAmount(a)
    \/ \E t \in {"equal", "unequal"} : EqSetSplitType(t)
    \/ \E ms \in MemberLists : EqSetMembers(ms)
    \/ EqSubmit
    \/ EqOpen

SpecSplit == InitSplit /\ [][NextSplit]_vars

----------------------------------------------------------------------------
\* Groups page: createGroup

\* what the user types as the group name, and the types chosen
GroupNames == {<<>>, <<" ">>, <<" ", "G">>, <<"G", " ">>}
GroupTypes == {"trip", "other"}

RECURSIVE TrimStart(_)
TrimStart(str) ==
    IF str # <<>> /\ Head(str) = " " THEN TrimStart(Tail(str)) ELSE str

RECURSIVE TrimEnd(_)
TrimEnd(str) ==
    IF str # <<>> /\ str[Len(str)] = " "
    THEN TrimEnd(SubSeq(str, 1, Len(str) - 1))
    ELSE str

\* String.prototype.trim
Trim(str) == TrimEnd(TrimStart(str))

cgFrame ==
    UNCHANGED <<storageVars, groupsVars, modalVars, st, ae, lg, sn, gp, eq, ld,
                group_members, app, db, ins>>

\* onClick={() => setShowCreateModal(true)}
CgOpen ==
    /\ ~cg.showCreateModal
    /\ cg' = [cg EXCEPT !.showCreateModal = TRUE]
    /\ cgFrame

\* the X of the dialog: setShowCreateModal(false); the form keeps its values
CgCancel ==
    /\ cg.showCreateModal
    /\ cg' = [cg EXCEPT !.showCreateModal = FALSE]
    /\ cgFrame

\* onChange of the name field
CgSetName(n) ==
    /\ cg.showCreateModal
    /\ n # cg.newGroupName
    /\ cg' = [cg EXCEPT !.newGroupName = n]
    /\ cgFrame

\* onChange of the type select
CgSetType(t) ==
    /\ cg.showCreateModal
    /\ t # cg.newGroupType
    /\ cg' = [cg EXCEPT !.newGroupType = t]
    /\ cgFrame

\* createGroup up to its first await: if (!newGroupName.trim()) return;
\* otherwise the groups insert is issued.
CgCreateGroup ==
    /\ cg.showCreateModal /\ cg.pc = "idle"
    /\ cg.calls < MaxCalls
    /\ Cardinality(cg.groups) < MaxGroups
    /\ cg' = IF Trim(cg.newGroupName) = <<>>
             THEN [cg EXCEPT !.calls = @ + 1]
             ELSE [cg EXCEPT !.calls = @ + 1, !.pc = "group"]
    /\ cgFrame

\* The groups insert answers.  With an error or without a row createGroup
\* returns; with the row the group_members insert is issued.
CgGroupInsert(ok) ==
    /\ cg.pc = "group"
    /\ cg' = IF ok
             THEN LET id == Cardinality(cg.groups) + 1
                  IN  [cg EXCEPT !.groups = @ \cup
                                    {[id |-> id, name |-> cg.newGroupName,
                                      type |-> cg.newGroupType,
                                      created_by |-> user]},
                                 !.group = id,
                                 !.pc = "member"]
             ELSE [cg EXCEPT !.pc = "idle"]
    /\ cgFrame

\* The group_members insert answers; its result is not read.
\* setShowCreateModal(false), the form is reset, loadGroups() is called.
CgMemberInsert(ok) ==
    /\ cg.pc = "member"
    /\ cg' = [cg EXCEPT !.members = IF ok
                                    THEN @ \cup {[group_id |-> cg.group,
                                                  user_id |-> user]}
                                    ELSE @,
                        !.showCreateModal = FALSE,
                        !.newGroupName = <<>>,
                        !.newGroupType = "other",
                        !.closed = @ + 1,
                        !.loadGroups = @ + 1,
                        !.pc = "idle"]
    /\ cgFrame

InitCreate ==
    /\ StorageEmpty
    /\ user \in Range(GroupMembers)
    /\ balances = <<>>
    /\ ModalClosed
    /\ st = StIdle /\ ae = AeIdle /\ lg = LgIdle /\ sn = SnIdle /\ gp = GpIdle
    /\ eq = EqIdle /\ ld = LdIdle /\ PagesIdle

NextCreate ==
    \/ CgOpen
    \/ CgCancel
    \/ \E n \in GroupNames : CgSetName(n)
    \/ \E t \in GroupTypes : CgSetType(t)
    \/ CgCreateGroup
    \/ \E ok \in BOOLEAN : CgGroupInsert(ok)
    \/ \E ok \in BOOLEAN : CgMemberInsert(ok)

SpecCreate == InitCreate /\ [][NextCreate]_vars

----------------------------------------------------------------------------
\* AppContent, AuthFlow and Layout.  useAuth() gives { user, loading } of the
\* session, which changes by the events loading, signed-in and signed-out.

AppUsers == {"A", "B", "C"}
PageIds == {"dashboard", "add-expense", "analytics", "groups", "insights",
            "settings"}
\* onNavigate takes any string
NavigateIds == PageIds \cup {"reports", ""}
AuthModes == {"login", "register", "reset"}

\* AuthFlow's return
AuthScreen(mode) ==
    IF mode = "register" THEN "Register"
    ELSE IF mode = "reset" THEN "ResetPassword"
    ELSE "Login"

\* renderPage's switch
RenderPage(page) ==
    CASE page = "dashboard" -> "Dashboard"
      [] page = "add-expense" -> "AddExpense"
      [] page = "analytics" -> "Analytics"
      [] page = "groups" -> "Groups"
      [] page = "insights" -> "Insights"
      [] page = "settings" -> "Settings"
      [] OTHER -> "Dashboard"

\* AppContent testing the user before loading
RenderedWrong(a) ==
    IF a.user # "" THEN RenderPage(a.currentPage)
    ELSE IF a.loading THEN "spinner"
    ELSE AuthScreen(a.authMode)

\* What AppContent returns
Rendered(a) ==
    IF a.loading THEN "spinner"
    ELSE IF a.user = "" THEN AuthScreen(a.authMode)
    ELSE RenderPage(a.currentPage)

\* AuthFlow and Layout lose their state when AppContent stops returning them
Unmounted(a) ==
    [a EXCEPT !.authMode = IF ~a.loading /\ a.user = "" THEN @ ELSE "login",
              !.isSidebarOpen = IF ~a.loading /\ a.user # "" THEN @ ELSE FALSE]

appFrame ==
    UNCHANGED <<storageVars, groupsVars, modalVars, st, ae, lg, sn, gp, eq, ld,
                group_members, cg, db, ins>>

\* session event: loading
AppLoading ==
    /\ ~app.loading
    /\ app' = Unmounted([app EXCEPT !.loading = TRUE])
    /\ appFrame

\* session event: signed in as u
AppSignedIn(u) ==
    /\ app.loading \/ app.user # u
    /\ app' = Unmounted([app EXCEPT !.loading = FALSE, !.user = u])
    /\ appFrame

\* session event: signed out (also the end of Layout's handleSignOut)
AppSignedOut ==
    /\ app.loading \/ app.user # ""
    /\ app' = Unmounted([app EXCEPT !.loading = FALSE, !.user = ""])
    /\ appFrame

\* Layout: onNavigate(id); setIsSidebarOpen(false)
AppNavigate(page) ==
    /\ ~app.loading /\ app.user # ""
    /\ app' = [app EXCEPT !.currentPage = page, !.isSidebarOpen = FALSE]
    /\ app' # app
    /\ appFrame

\* Layout: setIsSidebarOpen(open)
AppSidebar(open) ==
    /\ ~app.loading /\ app.user # ""
    /\ open # app.isSidebarOpen
    /\ app' = [app EXCEPT !.isSidebarOpen = open]
    /\ appFrame

\* AuthFlow: onToggleMode, onForgotPassword, onBack
AppAuthMode(mode) ==
    /\ ~app.loading /\ app.user = ""
    /\ mode # app.authMode
    /\ (app.authMode = "login") # (mode = "login")
    /\ app' = [app EXCEPT !.authMode = mode]
    /\ appFrame

InitApp ==
    /\ StorageEmpty
    /\ user = "A"
    /\ balances = <<>>
    /\ ModalClosed
    /\ st = StIdle /\ ae = AeIdle /\ lg = LgIdle /\ sn = SnIdle /\ gp = GpIdle
    /\ eq = EqIdle /\ ld = LdIdle /\ PagesIdle

NextApp ==
    \/ AppLoading
    \/ \E u \in AppUsers : AppSignedIn(u)
    \/ AppSignedOut
    \/ \E page \in NavigateIds : AppNavigate(page)
    \/ \E open \in BOOLEAN : AppSidebar(open)
    \/ \E mode \in AuthModes : AppAuthMode(mode)

SpecApp == InitApp /\ [][NextApp]_vars

----------------------------------------------------------------------------
\* Dashboard: loadDashboardData.  Dates are calendar days [y, m, d] of a
\* client whose time zone is UTC; an expense_date is the day of the row.

Date(y, m, d) == [y |-> y, m |-> m, d |-> d]

\* the days the page is opened on, and the user's rows in expenses
Todays == {Date(2025, 1, 5), Date(2025, 1, 20), Date(2025, 3, 3),
           Date(2025, 3, 31)}
ExpenseRows ==
    {[amount |-> 100, expense_date |-> Date(2024, 12, 30)],
     [amount |-> 250, expense_date |-> Date(2025, 1, 2)],
     [amount |-> 4000, expense_date |-> Date(2025, 2, 27)],
     [amount |-> 70000, expense_date |-> Date(2025, 3, 1)]}

DaysIn(y, m) ==
    IF m = 2 THEN (IF y % 4 = 0 /\ (y % 100 # 0 \/ y % 400 = 0) THEN 29 ELSE 28)
    ELSE IF m \in {4, 6, 9, 11} THEN 30 ELSE 31

\* Date.prototype.setDate(n) for n above minus the length of a month
SetDate(date, n) ==
    IF n >= 1 THEN [date EXCEPT !.d = n]
    ELSE LET py == IF date.m = 1 THEN date.y - 1 ELSE date.y
             pm == IF date.m = 1 THEN 12 ELSE date.m - 1
         IN  Date(py, pm, DaysIn(py, pm) + n)

\* e.expense_date >= start, on ISO strings of the same form
OnOrAfter(a, b) ==
    \/ a.y > b.y
    \/ a.y = b.y /\ a.m > b.m
    \/ a.y = b.y /\ a.m = b.m /\ a.d >= b.d

\* expenses.filter(e => e.expense_date >= start)
\*         .reduce((sum, e) => sum + Number(e.amount), 0)
TotalSince(rows, start) ==
    LET I == {i \in DOMAIN rows : OnOrAfter(rows[i].expense_date, start)}
    IN  SumOver([i \in I |-> rows[i].amount], I)

dbFrame ==
    UNCHANGED <<storageVars, groupsVars, modalVars, st, ae, lg, sn, gp, eq, ld,
                group_members, cg, app, ins>>

\* loadDashboardData up to its first await: setLoading(true);
\* const now = new Date(); now.setHours(0, 0, 0, 0) and
\* now.setDate(now.getDate() - 7) change now itself, and monthStart and
\* yearStart are taken from now after that.
DbLoad ==
    /\ db.pc \in {"idle", "done"}
    /\ LET now1 == db.now
           now2 == SetDate(now1, now1.d - 7)
       IN  db' = [db EXCEPT !.pc = "expenses", !.loading = TRUE,
                            !.todayStart = now1,
                            !.weekStart = now2,
                            !.monthStart = Date(now2.y, now2.m, 1),
                            !.yearStart = Date(now2.y, 1, 1)]
    /\ db' # db
    /\ dbFrame

\* The select of amount, expense_date answers: with data setSummary(...);
\* then the select of the recent expenses is issued.
DbExpenses(ok) ==
    /\ db.pc = "expenses"
    /\ db' = IF ok
             THEN [db EXCEPT !.pc = "recent",
                     !.summary =
                        [today |-> TotalSince(db.expenses, db.todayStart),
                         week |-> TotalSince(db.expenses, db.weekStart),
                         month |-> TotalSince(db.expenses, db.monthStart),
                         year |-> TotalSince(db.expenses, db.yearStart)]]
             ELSE [db EXCEPT !.pc = "recent"]
    /\ dbFrame

\* The select of the recent expenses answers; setLoading(false).
DbRecent ==
    /\ db.pc = "recent"
    /\ db' = [db EXCEPT !.pc = "done", !.loading = FALSE]
    /\ dbFrame

InitDash ==
    /\ StorageEmpty
    /\ user = "A"
    /\ balances = <<>>
    /\ ModalClosed
    /\ st = StIdle /\ ae = AeIdle /\ lg = LgIdle /\ sn = SnIdle /\ gp = GpIdle
    /\ eq = EqIdle /\ ld = LdIdle
    /\ group_members = GroupMembers
    /\ cg = CgIdle /\ app = AppIdle /\ ins = InsIdle
    /\ db \in {[DbIdle EXCEPT !.now = t, !.expenses = rows] :
                t \in Todays,
                rows \in UNION {[1..n -> ExpenseRows] : n \in 0..MaxRows}}

NextDash ==
    \/ DbLoad
    \/ \E ok \in BOOLEAN : DbExpenses(ok)
    \/ DbRecent

SpecDash == InitDash /\ [][NextDash]_vars

----------------------------------------------------------------------------
\* Insights: loadInsights.  Amounts are in cents; a quotient is kept as
\* <<numerator, denominator>> and compared by cross-multiplication.

\* now.getDate(), and the user's expenses of the current and of the previous
\* month
InsDays == {1, 24, 31}
CurrentRows ==
    {[amount |-> 3000, category |-> "Food"],
     [amount |-> 3300, category |-> "Travel"],
     [amount |-> 3700, category |-> "Bills"],
     [amount |-> 200000, category |-> "Rent"]}
PreviousRows ==
    {[amount |-> 2000, category |-> "Food"],
     [amount |-> 8000, category |-> "Travel"],
     [amount |-> 10000, category |-> "Bills"]}

\* rows?.reduce((sum, e) => sum + Number(e.amount), 0) || 0
TotalOf(rows) == SumOver([r \in rows |-> r.amount], rows)

\* a change counted against a previous total of nothing
PercentageChangeWrong(currentTotal, previousTotal) ==
    IF previousTotal > 0
    THEN <<(currentTotal - previousTotal) * 100, previousTotal>>
    ELSE <<currentTotal * 100, 1>>

\* previousTotal > 0 ? ((currentTotal - previousTotal) / previousTotal) * 100 : 0
PercentageChange(currentTotal, previousTotal) ==
    IF previousTotal > 0
    THEN <<(currentTotal - previousTotal) * 100, previousTotal>>
    ELSE <<0, 1>>

\* categoryMap, and its entry with the largest amount, or ['None', 0]
CategoryTotal(rows, c) == TotalOf({r \in rows : r.category = c})

TopCategory(rows) ==
    IF rows = {} THEN [name |-> "None", amount |-> 0]
    ELSE LET cs == {r.category : r \in rows}
             top == CHOOSE c \in cs :
                       \A d \in cs : CategoryTotal(rows, c) >= CategoryTotal(rows, d)
         IN  [name |-> top, amount |-> CategoryTotal(rows, top)]

\* the ids of the rules in the order they are tested: '1' Spending Increased
\* Significantly, '2' Great Job Saving!, '3' High Spending on <category>,
\* '4' Spending Pace Alert, '5' Potential Monthly Savings
RuleFires(id, a, day) ==
    CASE id = 1 -> a.percentageChange[1] > 20 * a.percentageChange[2]
      [] id = 2 -> /\ ~(a.percentageChange[1] > 20 * a.percentageChange[2])
                   /\ a.percentageChange[1] < -20 * a.percentageChange[2]
      [] id = 3 -> a.topCategory.amount * 10 > a.currentMonth * 4
      [] id = 4 -> a.currentMonth * 30 * 10 > a.currentMonth * 13 * day
      [] id = 5 -> a.currentMonth > 100000 * day

RuleIds == 1..5

\* generatedInsights: the rules that fire, in order, or '6' Looking Good!
GeneratedInsights(a, day) ==
    LET fired == SelectSeq([i \in RuleIds |-> i],
                           LAMBDA i : RuleFires(i, a, day))
    IN  IF Len(fired) = 0 THEN <<6>> ELSE fired

insFrame ==
    UNCHANGED <<storageVars, groupsVars, modalVars, st, ae, lg, sn, gp, eq, ld,
                group_members, cg, app, db>>

\* loadInsights up to its first await: setLoading(true), the select of the
\* current month's expenses is issued
InsLoad ==
    /\ ins.pc \in {"idle", "done"}
    /\ ins' = [ins EXCEPT !.pc = "current", !.loading = TRUE, !.rows = {}]
    /\ ins' # ins
    /\ insFrame

\* The select of the current month answers, with its rows or with data: null
InsCurrent(ok) ==
    /\ ins.pc = "current"
    /\ ins' = [ins EXCEPT !.pc = "previous",
                          !.rows = IF ok THEN ins.current ELSE {}]
    /\ insFrame

\* The select of the previous month answers: setAnalysis(...), the rules,
\* setInsights(generatedInsights), setLoading(false)
InsPrevious(ok) ==
    /\ ins.pc = "previous"
    /\ LET currentTotal == TotalOf(ins.rows)
           previousTotal == IF ok THEN TotalOf(ins.previous) ELSE 0
           a == [currentMonth |-> currentTotal,
                 previousMonth |-> previousTotal,
                 percentageChange |->
                    PercentageChange(currentTotal, previousTotal),
                 topCategory |-> TopCategory(ins.rows),
                 set |-> TRUE]
       IN  ins' = [ins EXCEPT !.pc = "done", !.loading = FALSE,
                              !.analysis = a,
                              !.insights = GeneratedInsights(a, ins.day)]
    /\ insFrame

InitInsights ==
    /\ StorageEmpty
    /\ user = "A"
    /\ balances = <<>>
    /\ ModalClosed
    /\ st = StIdle /\ ae = AeIdle /\ lg = LgIdle /\ sn = SnIdle /\ gp = GpIdle
    /\ eq = EqIdle /\ ld = LdIdle
    /\ group_members = GroupMembers
    /\ cg = CgIdle /\ app = AppIdle /\ db = DbIdle
    /\ ins \in {[InsIdle EXCEPT !.day = d, !.current = c, !.previous = q] :
                 d \in InsDays, c \in SUBSET CurrentRows,
                 q \in SUBSET PreviousRows}

NextInsights ==
    \/ InsLoad
    \/ \E ok \in BOOLEAN : InsCurrent(ok)
    \/ \E ok \in BOOLEAN : InsPrevious(ok)

SpecInsights == InitInsights /\ [][NextInsights]_vars

----------------------------------------------------------------------------
\* The reading side of a payment URI: what URLSearchParams parsing, the
\* inverse of the serialisation above, gives back.  Used to state what a
\* link carries.

FirstIndex(str, c) ==
    IF \E i \in DOMAIN str : str[i] = c
    THEN CHOOSE i \in DOMAIN str : str[i] = c /\ \A j \in 1..(i - 1) : str[j] # c
    ELSE 0

RECURSIVE SplitOn(_, _)
SplitOn(str, c) ==
    LET i == FirstIndex(str, c)
    IN  IF i = 0 THEN <<str>>
        ELSE <<SubSeq(str, 1, i - 1)>> \o SplitOn(SubSeq(str, i + 1, Len(str)), c)

CharOf(hex) ==
    IF \E c \in DOMAIN HexOf : HexOf[c] = hex
    THEN CHOOSE c \in DOMAIN HexOf : HexOf[c] = hex
    ELSE "?"

RECURSIVE UrlDecode(_)
UrlDecode(str) ==
    IF str = <<>> THEN <<>>
    ELSE IF Head(str) = "+" THEN <<" ">> \o UrlDecode(Tail(str))
    ELSE IF Head(str) = "%" /\ Len(str) >= 3
         THEN <<CharOf(SubSeq(str, 2, 3))>> \o UrlDecode(SubSeq(str, 4, Len(str)))
    ELSE <<Head(str)>> \o UrlDecode(Tail(str))

ParsePair(pair) ==
    LET i == FirstIndex(pair, "=")
    IN  IF i = 0 THEN <<UrlDecode(pair), <<>>>>
        ELSE <<UrlDecode(SubSeq(pair, 1, i - 1)),
               UrlDecode(SubSeq(pair, i + 1, Len(pair)))>>

ParseQuery(q) ==
    LET ps == SplitOn(q, "&") IN [i \in DOMAIN ps |-> ParsePair(ps[i])]

\* The values the query gives for a name, in order
ParamValues(q, name) ==
    LET ps == SelectSeq(ParseQuery(q), LAMBDA pr : pr[1] = name)
    IN  [i \in DOMAIN ps |-> ps[i][2]]

DigitValue(d) == (CHOOSE i \in DOMAIN Digit : Digit[i] = d) - 1

RECURSIVE Natural(_)
Natural(ds) ==
    IF ds = <<>> THEN 0
    ELSE 10 * Natural(SubSeq(ds, 1, Len(ds) - 1)) + DigitValue(ds[Len(ds)])

\* An unsigned decimal with exactly two fraction digits
TwoDecimals(str) ==
    /\ Len(str) >= 4
    /\ str[Len(str) - 2] = "."
    /\ \A i \in DOMAIN str : i # Len(str) - 2 => str[i] \in Range(Digit)

CentsOf(str) ==
    100 * Natural(SubSeq(str, 1, Len(str) - 3))
        + Natural(SubSeq(str, Len(str) - 1, Len(str)))

----------------------------------------------------------------------------
\* Properties of the balance engine and of the expense submission

\* The balances calculateBalances would show for the stored data
StoredBalances == CalculateBalances(GroupId, group_expenses, expense_splits)

SumBalances ==
    SumOver([i \in DOMAIN StoredBalances |-> StoredBalances[i].balance],
            DOMAIN StoredBalances)

\* amount of an expense minus the sum of its splits, in cents
Residue(e) ==
    LET S == SplitsOf(e, expense_splits)
    IN  e.amount - SumOver([s \in S |-> s.amount], S)

SumResidues ==
    SumOver([i \in DOMAIN group_expenses |-> Residue(group_expenses[i])],
            DOMAIN group_expenses)

\* every stored expense's splits sum to its amount within 0.01
Reconciled ==
    \A i \in DOMAIN group_expenses : Abs(Residue(group_expenses[i])) <= 1

\* C1, as the specification states it: when every expense's splits sum to
\* its amount within 0.01, the members' balances sum to zero within 0.01.
BalancesSumToZero == Reconciled => Abs(SumBalances) <= 1

\* C1, amended: the members' balances sum to the sum over the expenses of
\* (amount - sum of splits); when every expense reconciles within 0.01 they
\* sum to zero within 0.01 per stored expense.
BalancesSumToResidues ==
    LET sum == SumBalances
    IN  /\ sum = SumResidues
        /\ Reconciled => Abs(sum) <= Len(group_expenses)

\* Two reconciled expenses whose residues add up: the balances are off by 0.02
ResiduesAddUp ==
    /\ Len(group_expenses) = 2
    /\ Reconciled
    /\ Abs(SumBalances) = 2

\* C2: once handleSubmit has returned, every stored expense has its split
\* rows: an expense is stored together with its splits or not at all.
AllOrNothing ==
    (pc = "idle" /\ outcome # "none") =>
        \A i \in DOMAIN group_expenses :
            SplitsOf(group_expenses[i], expense_splits) # {}

\* C3: a submission is rejected by the validation exactly when the sum of
\* the splits differs from the amount by more than 0.01.
RejectsAboveOneCent ==
    /\ outcome = "validation" =>
            Abs(TotalSplit(splits) - amount[1] * Scale) > Scale
    /\ outcome = "pending" =>
            Abs(TotalSplit(splits) - amount[1] * Scale) <= Scale

\* C4: a step that ends handleSubmit on the validation issues no insert and
\* leaves storage as it was, sets the error to the message with the computed
\* sum and the expected amount, clears loading, calls neither onSuccess nor
\* onClose and leaves the modal open.
ValidationFailureWritesNothing ==
    [][ outcome' = "validation" =>
            /\ group_expenses' = group_expenses
            /\ expense_splits' = expense_splits
            /\ inserts' = 0
            /\ error'.kind = "validation"
            /\ error'.totalSplit = TotalSplit(splits)
            /\ error'.expenseAmount = amount[1] * Scale
            /\ loading' = FALSE
            /\ calls' = NoCalls
            /\ showAddExpenseModal' ]_vars

\* A submission rejected by the validation while an expense is already stored
ValidationFailed ==
    /\ outcome = "validation"
    /\ Abs(TotalSplit(splits) - amount[1] * Scale) > Scale
    /\ group_expenses # <<>>

\* a member who neither paid nor is split into any stored expense
Inactive(u) ==
    /\ \A i \in DOMAIN group_expenses : group_expenses[i].paid_by # u
    /\ \A s \in expense_splits : s.user_id # u

\* C5: the list calculateBalances sets has exactly one entry per member of
\* the group, in the members' order, and the entry of a member who is in no
\* expense is 0.
OneBalancePerMember ==
    balances # <<>> =>
        /\ Len(balances) = Len(GroupMembers)
        /\ \A i \in DOMAIN balances :
            /\ balances[i].user_id = GroupMembers[i]
            /\ Inactive(GroupMembers[i]) => balances[i].balance = 0

\* Balances shown for a group with an expense and a member who is in none
InactiveMemberShown ==
    /\ balances # <<>>
    /\ group_expenses # <<>>
    /\ \E u \in Range(GroupMembers) : Inactive(u)

FirstExpense == [id |-> 1, group_id |-> GroupId, paid_by |-> "A", amount |-> 10000]
SecondExpense == [id |-> 2, group_id |-> GroupId, paid_by |-> "B", amount |-> 5000]
FirstSplits == {[group_expense_id |-> 1, user_id |-> u, amount |-> 5000] :
                    u \in Range(GroupMembers)}
SecondSplits == {[group_expense_id |-> 2, user_id |-> u, amount |-> 2500] :
                    u \in Range(GroupMembers)}
BalancesOf(a, b) ==
    <<[user_id |-> "A", user_name |-> UserName("A"), balance |-> a],
      [user_id |-> "B", user_name |-> UserName("B"), balance |-> b]>>

\* C6: in a group of A and B with no expenses, A's equal-split expense of
\* 100.00 is stored with splits 50.00 and 50.00 and the balances are +50.00
\* and -50.00; B's equal-split expense of 50.00 after it is stored with
\* splits 25.00 and 25.00 and the balances are +25.00 and -25.00.
TwoMemberScenario ==
    [][ (/\ pc = "splits" /\ outcome' = "success" /\ splitType = "equal")
        =>
        /\ (/\ group_expenses = <<FirstExpense>>
            /\ expense_splits = {})
           => /\ expense_splits' = FirstSplits
              /\ CalculateBalances(GroupId, group_expenses', expense_splits')
                    = BalancesOf(5000, -5000)
        /\ (/\ group_expenses = <<FirstExpense, SecondExpense>>
            /\ expense_splits = FirstSplits)
           => /\ expense_splits' = FirstSplits \cup SecondSplits
              /\ CalculateBalances(GroupId, group_expenses', expense_splits')
                    = BalancesOf(2500, -2500) ]_vars

\* Both expenses of the scenario stored
ScenarioStored ==
    /\ group_expenses = <<FirstExpense, SecondExpense>>
    /\ expense_splits = FirstSplits \cup SecondSplits
    /\ outcome = "success"
    /\ StoredBalances = BalancesOf(2500, -2500)

----------------------------------------------------------------------------
\* Properties of the payment link

Key(a, b) == <<a, b>>

\* C7: the link the settle button opens has the scheme upi://pay, and its
\* query gives am as the absolute value of the debtor's balance with two
\* decimals, cu as INR, pn as the display name of the first creditor and tn
\* as the settlement note.
SettleLinkCarriesDebt ==
    st.href # <<>> =>
        /\ SubSeq(st.href, 1, Len(UpiPay)) = UpiPay
        /\ LET q == SubSeq(st.href, Len(UpiPay) + 1, Len(st.href))
           IN  /\ Len(ParamValues(q, Key("a", "m"))) = 1
               /\ TwoDecimals(ParamValues(q, Key("a", "m"))[1])
               /\ CentsOf(ParamValues(q, Key("a", "m"))[1]) = Abs(st.balance)
               /\ ParamValues(q, Key("c", "u")) = <<INR>>
               /\ ParamValues(q, Key("p", "n")) = <<UserName(st.creditor)>>
               /\ ParamValues(q, Key("t", "n")) = <<SettleNote>>
               /\ ParamValues(q, Key("p", "a")) = <<MerchantUpi>>

\* B, owing 25.00, has opened the link to the creditor A
SettleLinkOpened ==
    /\ st.href # <<>>
    /\ st.balance = -2500
    /\ st.creditor = "A"
    /\ user = "B"

\* C8: two calls of generateGooglePayUrl return the same URI exactly when
\* their parameters are the same.
SameUriSameParams ==
    gp.called = 2 => (gp.up = gp.uq <=> gp.p = gp.q)

\* Two calls whose names differ only in a space against a plus sign
SpaceAgainstPlus ==
    /\ gp.called = 2
    /\ gp.p.name = <<" ">> /\ gp.q.name = <<"+">>
    /\ gp.p.upiId = gp.q.upiId /\ gp.p.amount = gp.q.amount
    /\ gp.p.note = gp.q.note
    /\ gp.up # gp.uq

----------------------------------------------------------------------------
\* Properties of the forms' loading flags and of sendNotification

\* C9: when a handler that set its loading flag has returned, the flag is
\* false again: AddExpense.handleSubmit, loadGroups and the modal's
\* handleSubmit.
LoadingCleared ==
    /\ ae.pc = "done" => ~ae.loading
    /\ lg.pc = "done" => ~lg.loading
    /\ (pc = "idle" /\ outcome # "none") => ~loading

\* C10: a call of sendNotification issues one request and no more, however
\* the request ends, and the call resolves: it never rejects.
OneRequestNeverRejects ==
    /\ sn.requests <= 1
    /\ sn.total = sn.calls
    /\ sn.result # "rejected"
    /\ sn.pc = "done" => sn.result = "resolved"

\* A call whose request threw has resolved after its single request
ResolvedAfterThrow ==
    /\ sn.pc = "done"
    /\ sn.log = "Error sending notification:"
    /\ sn.requests = 1
    /\ sn.result = "resolved"

----------------------------------------------------------------------------
\* Properties of the equal split

\* C11: the split rows stored for an expense under the equal split policy
\* sum exactly, in cents, to the amount of the expense.
EqualRowsSumToTotal ==
    eq.stored =>
        SumOver([r \in eq.rows |-> r.amount], eq.rows) = eq.amount[1]

\* C18: under 'equal' with a non-empty amount the splits are defined for the
\* members passed to the modal and for nobody else, and each is the amount
\* divided by the number of members; this holds after every change of the
\* amount, the split type or the member list.
EqualSplitIsEven ==
    (eq.splitType = "equal" /\ eq.amount # <<>>) =>
        /\ DOMAIN eq.splits = Range(eq.members)
        /\ \A u \in Range(eq.members) :
              eq.splits[u] * Len(eq.members) = eq.amount[1] * Scale

\* Three members under 'equal' with an amount that does not divide evenly
ThreeWaySplit ==
    /\ eq.splitType = "equal"
    /\ eq.members = <<"A", "B", "C">>
    /\ eq.amount = <<10001>>
    /\ \A u \in {"A", "B", "C"} : 3 * eq.splits[u] = 10001 * Scale

----------------------------------------------------------------------------
\* Properties of the balances shown on the Groups page

\* what member u paid for the group's stored expenses, in cents
PaidBy(u) ==
    LET I == {i \in DOMAIN group_expenses :
                /\ group_expenses[i].group_id = GroupId
                /\ group_expenses[i].paid_by = u}
    IN  SumOver([i \in I |-> group_expenses[i].amount], I)

\* what member u is split into over the group's stored expenses, in cents
OwedBy(u) ==
    LET ids == {group_expenses[i].id : i \in
                    {j \in DOMAIN group_expenses :
                        group_expenses[j].group_id = GroupId}}
        S == {x \in expense_splits :
                x.user_id = u /\ x.group_expense_id \in ids}
    IN  SumOver([x \in S |-> x.amount], S)

Reverse(seq) == [i \in DOMAIN seq |-> seq[Len(seq) + 1 - i]]

\* C12: the balance calculateBalances shows for a member is the sum of the
\* amounts of the group's expenses the member paid minus the sum of the
\* member's splits of those expenses, and the expenses taken in the reverse
\* order give the same balances.
BalanceIsPaidMinusOwed ==
    balances # <<>> =>
        /\ \A i \in DOMAIN balances :
              balances[i].balance
                  = PaidBy(balances[i].user_id) - OwedBy(balances[i].user_id)
        /\ CalculateBalances(GroupId, Reverse(group_expenses), expense_splits)
              = balances

\* Balances shown for two expenses paid by different members
TwoPayersShown ==
    /\ balances # <<>>
    /\ Len(group_expenses) = 2
    /\ group_expenses[1].paid_by # group_expenses[2].paid_by
    /\ balances[1].balance # 0

----------------------------------------------------------------------------
\* Properties of the two inserts of handleSubmit

\* C13: the step on which the group_expenses insert fails leaves storage as
\* it was, shows the storage error, clears loading, has issued that one
\* insert only and calls neither onSuccess nor onClose; the expense_splits
\* insert is issued only on the step that stores the new expense, and rows
\* are added to expense_splits only for the id of that expense.
ExpenseFailureStops ==
    [][ /\ (pc = "expense" /\ pc' = "idle") =>
              /\ group_expenses' = group_expenses
              /\ expense_splits' = expense_splits
              /\ outcome' = "expense_failed"
              /\ error'.kind = "storage" /\ error'.message = "expenseError"
              /\ loading' = FALSE
              /\ inserts' = 1
              /\ calls' = NoCalls
              /\ showAddExpenseModal'
        /\ (pc' = "splits" /\ pc # "splits") =>
              /\ pc = "expense"
              /\ group_expenses' = Append(group_expenses, expense')
        /\ expense_splits' # expense_splits =>
              /\ pc = "splits"
              /\ expense = group_expenses[Len(group_expenses)]
              /\ \A x \in expense_splits' \ expense_splits :
                    x.group_expense_id = expense.id
              /\ \A x \in expense_splits : x.group_expense_id # expense.id
      ]_vars

\* A failed group_expenses insert with an earlier expense in storage
ExpenseInsertFailed ==
    /\ outcome = "expense_failed"
    /\ inserts = 1
    /\ group_expenses # <<>>

\* C14: when handleSubmit has ended on a failed expense_splits insert, the
\* expense it inserted is still in storage and has no split rows, the
\* storage error is shown, loading is cleared, and neither onSuccess nor
\* onClose was called.
SplitFailureLeavesOrphan ==
    outcome = "splits_failed" =>
        /\ group_expenses # <<>>
        /\ group_expenses[Len(group_expenses)].paid_by = user
        /\ group_expenses[Len(group_expenses)].amount = amount[1]
        /\ SplitsOf(group_expenses[Len(group_expenses)], expense_splits) = {}
        /\ inserts = 2
        /\ error.kind = "storage" /\ error.message = "splitsError"
        /\ ~loading
        /\ calls = NoCalls
        /\ showAddExpenseModal

\* A failed expense_splits insert for the second expense of the group
SplitInsertFailed ==
    /\ outcome = "splits_failed"
    /\ Len(group_expenses) = 2
    /\ SplitsOf(group_expenses[1], expense_splits) # {}
    /\ SplitsOf(group_expenses[2], expense_splits) = {}

----------------------------------------------------------------------------
\* Properties of the owe/owed display and of the settle button

\* C15: a member whose shown balance is within 0.01 of zero is labelled
\* 'All settled up' and is not offered the settle button.
SettledWithinOneCent ==
    \A i \in DOMAIN balances :
        Abs(balances[i].balance) <= 1 =>
            /\ BalanceLabel(balances[i].balance) = "All settled up"
            /\ ~SettleOffered(balances[i], balances[i].user_id)

\* the indices of the entries with a positive balance
Positive == {j \in DOMAIN balances : balances[j].balance > 0}

\* C16: the settle button acts only for an entry of the signed-in user with
\* a negative balance; with an entry of positive balance it navigates to the
\* link for the first such entry, and with none it does not navigate.
SettleOnlyOwnDebt ==
    [][ st' # st =>
          \E i \in DOMAIN balances :
            /\ balances[i].user_id = user
            /\ balances[i].balance < 0
            /\ st'.balance = balances[i].balance
            /\ IF Positive = {}
               THEN st'.href = st.href /\ st'.creditor = ""
               ELSE LET c == CHOOSE j \in Positive : \A k \in Positive : j <= k
                    IN  /\ st'.creditor = balances[c].user_id
                        /\ st'.href = GenerateGooglePayUrl(MerchantUpi,
                                         -balances[i].balance,
                                         balances[c].user_name, SettleNote)
      ]_vars

\* The button was clicked by the third member while the two before have
\* positive balances: the link names the first
SettleWithTwoCreditors ==
    /\ st.clicked
    /\ user = "C"
    /\ st.balance < 0
    /\ Positive = {1, 2}
    /\ st.creditor = "A"
    /\ st.href # <<>>

----------------------------------------------------------------------------
\* Properties of loadGroupDetails and calculateBalances

\* both calls have returned, all their selects returned data, and the
\* second was made while the first was under way
BothLoadsFinished ==
    /\ Len(ld.finished) = 2
    /\ ld.overlap
    /\ \A k \in DOMAIN ld.loads : ld.loads[k].full

\* C17: when two calls of loadGroupDetails that were under way together
\* have both returned, the members, expenses and balances displayed are the
\* ones set by the call that returned last.
LastCompletedLoadShown ==
    BothLoadsFinished =>
        LET last == ld.loads[ld.finished[2]]
        IN  /\ ld.groupMembers = last.members
            /\ ld.groupExpenses = last.expenses
            /\ balances = last.balances

\* C19: a step of loadGroupDetails or calculateBalances leaves the stored
\* expenses and splits as they are, while the submissions of the clients go
\* on changing them.
LoadsWriteNothing ==
    [][ (ld' # ld \/ balances' # balances) =>
            /\ group_expenses' = group_expenses
            /\ expense_splits' = expense_splits ]_vars

\* Balances were computed and set while an expense without splits is stored
BalancesSetOverOrphan ==
    /\ \E k \in DOMAIN ld.loads :
          ld.loads[k].pc = "done" /\ ld.loads[k].balances # <<>>
    /\ balances # <<>>
    /\ \E i \in DOMAIN group_expenses :
          SplitsOf(group_expenses[i], expense_splits) = {}

----------------------------------------------------------------------------
\* Properties of navigation

\* C20: a call of generateGooglePayUrl leaves window.location and the
\* requests issued as they are; a call of openGooglePay navigates once, to
\* the string generateGooglePayUrl gives for its parameters (the string a
\* call of generateGooglePayUrl on them has returned), and nothing else
\* navigates.
NavigationOnlyInOpen ==
    [][ /\ gp'.called # gp.called =>
              /\ gp'.href = gp.href
              /\ gp'.nav = gp.nav
              /\ sn' = sn
        /\ (gp'.nav # gp.nav \/ gp'.href # gp.href) =>
              /\ gp'.called = gp.called
              /\ gp'.nav = gp.nav + 1
              /\ gp'.opened \in {gp.p, gp.q}
              /\ gp'.href = GenerateGooglePayUrl(gp'.opened.upiId,
                                gp'.opened.amount, gp'.opened.name,
                                gp'.opened.note)
              /\ (gp.called >= 1 /\ gp'.opened = gp.p) => gp'.href = gp.up
              /\ (gp.called = 2 /\ gp'.opened = gp.q) => gp'.href = gp.uq
              /\ sn' = sn
      ]_vars

\* generateGooglePayUrl was called twice and openGooglePay once, on the
\* second parameters
OpenedOnce ==
    /\ gp.called = 2
    /\ gp.nav = 1
    /\ gp.opened = gp.q /\ gp.q # gp.p
    /\ gp.href = gp.uq /\ gp.href # gp.up

----------------------------------------------------------------------------
\* Properties of a reader beside a writer

\* the sum of the balances a call of loadGroupDetails has set
SumOfLoad(k) ==
    LET bl == ld.loads[k].balances
    IN  SumOver([i \in DOMAIN bl |-> bl[i].balance], DOMAIN bl)

\* C21: the balances set by a call of loadGroupDetails that ran beside the
\* two inserts of another client's handleSubmit sum to zero within 0.01: the
\* call has not read the new expense without its splits.
ReaderSeesWholeExpenses ==
    \A k \in LoadIds :
        ld.loads[k].balances # <<>> => Abs(SumOfLoad(k)) <= 1

----------------------------------------------------------------------------
\* Properties of the balanceMap

\* the balanceMap of calculateBalances for the stored data
StoredMap ==
    BalanceMap(<<>>, ExpensesOfGroup(GroupId, group_expenses), expense_splits)

\* the balanceMap for the stored data without the i-th expense
MapWithout(i) ==
    BalanceMap(<<>>,
               ExpensesOfGroup(GroupId,
                   SubSeq(group_expenses, 1, i - 1) \o
                   SubSeq(group_expenses, i + 1, Len(group_expenses))),
               expense_splits)

MapValue(map, u) == IF u \in DOMAIN map THEN map[u] ELSE 0

MapSum(map) == SumOver(map, DOMAIN map)

Orphans ==
    {i \in DOMAIN group_expenses :
        SplitsOf(group_expenses[i], expense_splits) = {}}

\* C22: the values of the balanceMap sum to the sum over the expenses of
\* (amount - sum of its splits); an expense stored without splits adds its
\* whole amount to the entry of its payer, and so to the sum, and changes no
\* other entry.
MapSumsToResidues ==
    LET map == StoredMap
    IN  /\ MapSum(map) = SumResidues
        /\ \A i \in Orphans :
              LET e == group_expenses[i]
                  rest == MapWithout(i)
              IN  /\ MapValue(map, e.paid_by) =
                        MapValue(rest, e.paid_by) + e.amount
                  /\ MapSum(map) = MapSum(rest) + e.amount
                  /\ \A u \in (DOMAIN map \cup DOMAIN rest) \ {e.paid_by} :
                        MapValue(map, u) = MapValue(rest, u)

\* An expense without splits is stored beside one with splits, and the
\* balances were computed
OrphanCredited ==
    /\ Orphans # {}
    /\ expense_splits # {}
    /\ balances = StoredBalances
    /\ MapSum(StoredMap) >= 5000

----------------------------------------------------------------------------
\* Properties of the balance list of a group that members have left

SumOfList(bl) == SumOver([i \in DOMAIN bl |-> bl[i].balance], DOMAIN bl)

\* the ids accumulated by calculateBalances that have no group_members row
Departed == DOMAIN StoredMap \ Range(group_members)

\* C23, as the specification states it: the balances that calculateBalances
\* sets sum to zero only when every payer and split user of the group's
\* expenses is a current member.
ZeroSumOnlyAmongMembers ==
    [][ (balances' # balances /\ SumOfList(balances') = 0) => Departed = {}
      ]_vars

\* C23, amended: calculateBalances sets one balance per current member, in
\* the order of the group_members rows, each the member's entry of the
\* balanceMap (0 without one); the entries of the ids that are not members
\* are left out, so the balances sum to the sum of the balanceMap less the
\* entries of those ids.
OnlyMembersListed ==
    [][ balances' # balances =>
          LET map == StoredMap
          IN  /\ [i \in DOMAIN balances' |-> balances'[i].user_id]
                    = group_members
              /\ \A i \in DOMAIN balances' :
                    balances'[i].balance
                        = MapValue(map, balances'[i].user_id)
              /\ SumOfList(balances')
                    = MapSum(map) - SumOver(map, Departed)
      ]_vars

\* B, who paid and owes, has left; the balances were computed for A alone and
\* do not sum to zero
DepartedLeftOut ==
    /\ group_members = <<"A">>
    /\ "B" \in Departed
    /\ balances = BalanceList(StoredMap, group_members)
    /\ SumOfList(balances) # 0
    /\ SumOver(StoredMap, Departed) # 0

----------------------------------------------------------------------------
\* Properties of the group selection

\* every call of loadGroupDetails made has returned, each select with data,
\* and a group is selected
LoadsSettled ==
    /\ ld.started # <<>>
    /\ \A k \in Range(ld.started) : ld.loads[k].pc = "done" /\ ld.loads[k].full
    /\ ld.selected # ""

\* C24: once every call of loadGroupDetails has returned, the members, the
\* expenses and the balances displayed are those a call has set for the
\* selectedGroup.
SelectedGroupShown ==
    LoadsSettled =>
        /\ ld.groupMembers[1] = ld.selected
        /\ ld.groupExpenses[1] = ld.selected
        /\ \E k \in Range(ld.started) :
              /\ ld.loads[k].group = ld.selected
              /\ balances = ld.loads[k].balances

----------------------------------------------------------------------------
\* Properties of the settlement amount

\* C25: in a group of three whose balances sum to zero, the amount in the
\* link the settle button opens is no more than the balance of the creditor
\* the link names.
SettleWithinCredit ==
    (/\ st.href # <<>>
     /\ Len(balances) >= 3
     /\ SumOfList(balances) = 0) =>
        LET q == SubSeq(st.href, Len(UpiPay) + 1, Len(st.href))
            c == CHOOSE j \in DOMAIN balances :
                    balances[j].user_id = st.creditor
        IN  CentsOf(ParamValues(q, Key("a", "m"))[1]) <= balances[c].balance

----------------------------------------------------------------------------
\* Properties of createGroup

\* C26: when createGroup closes the dialog and resets the form, the new
\* group and the group_members row of its creator are stored; a call with a
\* name that is blank once trimmed changes nothing.
CreatedGroupHasCreator ==
    [][ /\ cg'.closed # cg.closed =>
              /\ cg.group \in {g.id : g \in cg'.groups}
              /\ [group_id |-> cg.group, user_id |-> user] \in cg'.members
        /\ (cg'.calls # cg.calls /\ Trim(cg.newGroupName) = <<>>) =>
              cg' = [cg EXCEPT !.calls = cg'.calls]
      ]_vars

----------------------------------------------------------------------------
\* Properties of AppContent

AppPages == {"Dashboard", "AddExpense", "Analytics", "Groups", "Insights",
             "Settings"}
AuthScreens == {"Login", "Register", "ResetPassword"}

----------------------------------------------------------------------------
\* Properties of the dashboard totals

\* C28: once loadDashboardData has set the summary, 'This Month' is the sum
\* of the user's expenses dated on or after the first day of the month of
\* the current date, and 'This Year' the sum of those dated on or after
\* 1 January of its year.
MonthAndYearTotals ==
    (db.pc \in {"recent", "done"} /\ db.summary # DbIdle.summary) =>
        /\ db.summary.month
              = TotalSince(db.expenses, Date(db.now.y, db.now.m, 1))
        /\ db.summary.year
              = TotalSince(db.expenses, Date(db.now.y, 1, 1))

----------------------------------------------------------------------------
\* Properties of the insights

\* C29: loadInsights sets at least one insight; 'Looking Good!' (6) is among
\* them exactly when none of the five rules fired; 'Spending Increased
\* Significantly' (1) and 'Great Job Saving!' (2) are never both among them,
\* and neither is when the total of the previous month is 0.
AlwaysAnInsight ==
    ins.analysis.set =>
        LET ids == Range(ins.insights)
        IN  /\ ins.insights # <<>>
            /\ 6 \in ids <=> ids \cap RuleIds = {}
            /\ 6 \in ids <=>
                  \A i \in RuleIds : ~RuleFires(i, ins.analysis, ins.day)
            /\ ~(1 \in ids /\ 2 \in ids)
            /\ ins.analysis.previousMonth = 0 => (1 \notin ids /\ 2 \notin ids)

\* Nothing was spent in the previous month and something in this one, and
\* the insights are set
NothingToCompareWith ==
    /\ ins.analysis.set
    /\ ins.analysis.previousMonth = 0
    /\ ins.analysis.currentMonth > 0
    /\ ins.previous = {}
    /\ ins.insights # <<>>

====
